---- MODULE Spec2Model ----
(***************************************************************************)
(* A model of the safety-utils sanitization engine: the URL validator, the *)
(* string / HTML sanitizers, the structural sanitizer and the sensitive-   *)
(* field pipeline.  The repository holds several implementations of the    *)
(* same operations; each one is modelled under its own name:               *)
(*   sanitizeString, sanitizeObject, sanitizeRequestData, ...              *)
(*       src/src/utils/sanitizer.ts                                        *)
(*   xssGuard_*      src/unnamed/part_006, lines 91-206 (documented module)*)
(*   xssGuard_*_v1   src/unnamed/part_006, lines 1-90   (first variant)    *)
(*   helpers_*       src/unnamed/part_004 (password-aware helpers)         *)
(* A JavaScript string is a sequence of one-character strings.             *)
(***************************************************************************)
EXTENDS Integers, Sequences, FiniteSets, TLC

VARIABLES
    op,      \* the operation that has been called ("none" before the call)
    arg,     \* the caller's argument
    domMode, \* behaviour of the external DOM sanitizer primitive in this run
    ret,     \* the outcome of the call: a value returned or an exception
    registry \* the configurations that SANITIZATION_CONFIGS holds, by name

vars == <<op, arg, domMode, ret, registry>>

-----------------------------------------------------------------------------
(* Strings                                                                 *)

\* Bounds of the model.
MaxUrlBody == 4
MaxFrags == 3
MaxElems == 2
MaxEscLen == 4

Lower == {"a","b","c","d","e","f","g","h","i","j","k","l","m",
          "n","o","p","q","r","s","t","u","v","w","x","y","z"}
Digits == {"0","1","2","3","4","5","6","7","8","9"}

\* \w of a JavaScript regular expression (upper case letters are not used
\* by any input of the model).
WordChars == Lower \cup Digits \cup {"_"}

\* \s : the white space removed by String.prototype.trim.
SpaceChars == {" ", "\t", "\n", "\f", "\r"}

RECURSIVE Concat(_)
Concat(ss) == IF ss = <<>> THEN <<>> ELSE Head(ss) \o Concat(Tail(ss))

\* String.prototype.startsWith
startsWith(s, p) == Len(s) >= Len(p) /\ SubSeq(s, 1, Len(p)) = p

AllIn(s, i, j, C) == \A n \in i..j : s[n] \in C

\* Sequences over C of length at most n.
SeqsUpTo(C, n) == UNION {[1..m -> C] : m \in 0..n}

\* The outcome of a call.
NoResult == [status |-> "none"]
Returned(v) == [status |-> "returned", value |-> v]
Threw == [status |-> "threw"]

\* String.prototype.trim
RECURSIVE trimStart(_)
trimStart(s) ==
    IF s # <<>> /\ Head(s) \in SpaceChars THEN trimStart(Tail(s)) ELSE s

RECURSIVE trimEnd(_)
trimEnd(s) ==
    IF s # <<>> /\ s[Len(s)] \in SpaceChars
    THEN trimEnd(SubSeq(s, 1, Len(s) - 1))
    ELSE s

trim(s) == trimEnd(trimStart(s))

\* s.replace(/[C]/g, '')
RemoveChars(s, C) == SelectSeq(s, LAMBDA c : c \notin C)

\* The first index j >= i with s[j] = c, or 0.
RECURSIVE IndexOfFrom(_, _, _)
IndexOfFrom(s, c, i) ==
    IF i > Len(s) THEN 0
    ELSE IF s[i] = c THEN i
    ELSE IndexOfFrom(s, c, i + 1)

\* pat occurs in s at index i.
OccursAt(s, pat, i) ==
    i + Len(pat) - 1 <= Len(s) /\ SubSeq(s, i, i + Len(pat) - 1) = pat

\* The first index j >= i at which pat occurs in s, or 0.
RECURSIVE IndexOfSubFrom(_, _, _)
IndexOfSubFrom(s, pat, i) ==
    IF i > Len(s) THEN 0
    ELSE IF OccursAt(s, pat, i) THEN i
    ELSE IndexOfSubFrom(s, pat, i + 1)

Contains(s, pat) == IndexOfSubFrom(s, pat, 1) # 0

-----------------------------------------------------------------------------
(* Sanitization configurations                                             *)

\* The attribute names of a configuration, tag by tag:
\* Object.values(config.allowedAttributes || {}).flat()
RECURSIVE FlatValues(_)
FlatValues(entries) ==
    IF entries = <<>> THEN <<>> ELSE Head(entries).attrs \o FlatValues(Tail(entries))

\* The configurations of config/sanitizationConfigs.  A configuration is a
\* record of the properties it has (stripIgnoreTag and stripIgnoreTagBody
\* are optional); allowedAttributes lists its tags in the order written.
BASE_CONFIG ==
    [allowedTags |-> << <<"b">>, <<"i">>, <<"e","m">>,
        <<"s","t","r","o","n","g">>, <<"p">>, <<"b","r">>, <<"u","l">>,
        <<"o","l">>, <<"l","i">>, <<"a">> >>,
     allowedAttributes |-> <<
        [tag |-> <<"a">>,
         attrs |-> << <<"h","r","e","f">>, <<"t","i","t","l","e">> >>] >>,
     stripIgnoreTag |-> TRUE,
     stripIgnoreTagBody |-> FALSE]

STRICT_CONFIG ==
    [allowedTags |-> << <<"b">>, <<"i">>, <<"e","m">>,
        <<"s","t","r","o","n","g">> >>,
     allowedAttributes |-> << >>,
     stripIgnoreTag |-> TRUE,
     stripIgnoreTagBody |-> TRUE]

LIBERAL_CONFIG ==
    [allowedTags |-> << <<"h","1">>, <<"h","2">>, <<"h","3">>, <<"h","4">>,
        <<"h","5">>, <<"h","6">>, <<"p">>, <<"b","r">>, <<"h","r">>, <<"b">>,
        <<"i">>, <<"e","m">>, <<"s","t","r","o","n","g">>, <<"u">>, <<"s">>,
        <<"s","u","b">>, <<"s","u","p">>, <<"u","l">>, <<"o","l">>,
        <<"l","i">>, <<"a">>, <<"i","m","g">>,
        <<"b","l","o","c","k","q","u","o","t","e">>, <<"c","o","d","e">>,
        <<"p","r","e">>, <<"t","a","b","l","e">>, <<"t","h","e","a","d">>,
        <<"t","b","o","d","y">>, <<"t","r">>, <<"t","h">>, <<"t","d">>,
        <<"d","i","v">>, <<"s","p","a","n">> >>,
     allowedAttributes |-> <<
        [tag |-> <<"a">>,
         attrs |-> << <<"h","r","e","f">>, <<"t","i","t","l","e">>, <<"t","a","r","g","e","t">> >>],
        [tag |-> <<"i","m","g">>,
         attrs |-> << <<"s","r","c">>, <<"a","l","t">>, <<"t","i","t","l","e">>, <<"w","i","d","t","h">>, <<"h","e","i","g","h","t">> >>],
        [tag |-> <<"b","l","o","c","k","q","u","o","t","e">>,
         attrs |-> << <<"c","i","t","e">> >>],
        [tag |-> <<"t","a","b","l","e">>,
         attrs |-> << <<"c","l","a","s","s">> >>],
        [tag |-> <<"t","h">>,
         attrs |-> << <<"s","c","o","p","e">> >>],
        [tag |-> <<"t","d">>,
         attrs |-> << <<"c","o","l","s","p","a","n">>, <<"r","o","w","s","p","a","n">> >>] >>]

BLOG_CONFIG ==
    [allowedTags |-> << <<"h","2">>, <<"h","3">>, <<"h","4">>, <<"h","5">>,
        <<"h","6">>, <<"p">>, <<"b","r">>, <<"b">>, <<"i">>, <<"e","m">>,
        <<"s","t","r","o","n","g">>, <<"u">>, <<"u","l">>, <<"o","l">>,
        <<"l","i">>, <<"a">>, <<"i","m","g">>,
        <<"b","l","o","c","k","q","u","o","t","e">>, <<"c","o","d","e">>,
        <<"d","i","v">>, <<"s","p","a","n">> >>,
     allowedAttributes |-> <<
        [tag |-> <<"a">>,
         attrs |-> << <<"h","r","e","f">>, <<"t","i","t","l","e">>, <<"r","e","l">> >>],
        [tag |-> <<"i","m","g">>,
         attrs |-> << <<"s","r","c">>, <<"a","l","t">>, <<"t","i","t","l","e">> >>],
        [tag |-> <<"b","l","o","c","k","q","u","o","t","e">>,
         attrs |-> << <<"c","i","t","e">> >>],
        [tag |-> <<"d","i","v">>,
         attrs |-> << <<"c","l","a","s","s">> >>],
        [tag |-> <<"s","p","a","n">>,
         attrs |-> << <<"c","l","a","s","s">> >>] >>,
     stripIgnoreTag |-> TRUE]

COMMENT_CONFIG ==
    [allowedTags |-> << <<"b">>, <<"i">>, <<"e","m">>,
        <<"s","t","r","o","n","g">>, <<"b","r">>, <<"a">> >>,
     allowedAttributes |-> <<
        [tag |-> <<"a">>,
         attrs |-> << <<"h","r","e","f">>, <<"t","i","t","l","e">> >>] >>,
     stripIgnoreTag |-> TRUE,
     stripIgnoreTagBody |-> TRUE]

EMAIL_CONFIG ==
    [allowedTags |-> << <<"p">>, <<"b","r">>, <<"b">>, <<"i">>, <<"e","m">>,
        <<"s","t","r","o","n","g">>, <<"a">> >>,
     allowedAttributes |-> <<
        [tag |-> <<"a">>,
         attrs |-> << <<"h","r","e","f">>, <<"t","i","t","l","e">> >>] >>,
     stripIgnoreTag |-> TRUE,
     stripIgnoreTagBody |-> TRUE]

ADMIN_CONFIG ==
    [allowedTags |-> << <<"h","1">>, <<"h","2">>, <<"h","3">>, <<"h","4">>,
        <<"h","5">>, <<"h","6">>, <<"p">>, <<"b","r">>, <<"h","r">>, <<"b">>,
        <<"i">>, <<"e","m">>, <<"s","t","r","o","n","g">>, <<"u">>, <<"s">>,
        <<"s","u","b">>, <<"s","u","p">>, <<"u","l">>, <<"o","l">>,
        <<"l","i">>, <<"a">>, <<"i","m","g">>,
        <<"b","l","o","c","k","q","u","o","t","e">>, <<"c","o","d","e">>,
        <<"p","r","e">>, <<"t","a","b","l","e">>, <<"t","h","e","a","d">>,
        <<"t","b","o","d","y">>, <<"t","r">>, <<"t","h">>, <<"t","d">>,
        <<"d","i","v">>, <<"s","p","a","n">>,
        <<"s","e","c","t","i","o","n">>, <<"a","r","t","i","c","l","e">>,
        <<"f","o","r","m">>, <<"i","n","p","u","t">>,
        <<"t","e","x","t","a","r","e","a">>, <<"s","e","l","e","c","t">>,
        <<"o","p","t","i","o","n">>, <<"b","u","t","t","o","n">>,
        <<"l","a","b","e","l">> >>,
     allowedAttributes |-> <<
        [tag |-> <<"a">>,
         attrs |-> << <<"h","r","e","f">>, <<"t","i","t","l","e">>, <<"t","a","r","g","e","t">>, <<"r","e","l">> >>],
        [tag |-> <<"i","m","g">>,
         attrs |-> << <<"s","r","c">>, <<"a","l","t">>, <<"t","i","t","l","e">>, <<"w","i","d","t","h">>, <<"h","e","i","g","h","t">>, <<"c","l","a","s","s">> >>],
        [tag |-> <<"b","l","o","c","k","q","u","o","t","e">>,
         attrs |-> << <<"c","i","t","e">> >>],
        [tag |-> <<"t","a","b","l","e">>,
         attrs |-> << <<"c","l","a","s","s">> >>],
        [tag |-> <<"t","h">>,
         attrs |-> << <<"s","c","o","p","e">>, <<"c","l","a","s","s">> >>],
        [tag |-> <<"t","d">>,
         attrs |-> << <<"c","o","l","s","p","a","n">>, <<"r","o","w","s","p","a","n">>, <<"c","l","a","s","s">> >>],
        [tag |-> <<"d","i","v">>,
         attrs |-> << <<"c","l","a","s","s">>, <<"i","d">> >>],
        [tag |-> <<"s","p","a","n">>,
         attrs |-> << <<"c","l","a","s","s">>, <<"i","d">> >>],
        [tag |-> <<"f","o","r","m">>,
         attrs |-> << <<"a","c","t","i","o","n">>, <<"m","e","t","h","o","d">> >>],
        [tag |-> <<"i","n","p","u","t">>,
         attrs |-> << <<"t","y","p","e">>, <<"n","a","m","e">>, <<"v","a","l","u","e">>, <<"p","l","a","c","e","h","o","l","d","e","r">>, <<"r","e","q","u","i","r","e","d">> >>],
        [tag |-> <<"t","e","x","t","a","r","e","a">>,
         attrs |-> << <<"n","a","m","e">>, <<"p","l","a","c","e","h","o","l","d","e","r">>, <<"r","e","q","u","i","r","e","d">>, <<"r","o","w","s">>, <<"c","o","l","s">> >>],
        [tag |-> <<"s","e","l","e","c","t">>,
         attrs |-> << <<"n","a","m","e">>, <<"r","e","q","u","i","r","e","d">> >>],
        [tag |-> <<"o","p","t","i","o","n">>,
         attrs |-> << <<"v","a","l","u","e">> >>],
        [tag |-> <<"b","u","t","t","o","n">>,
         attrs |-> << <<"t","y","p","e">>, <<"c","l","a","s","s">> >>],
        [tag |-> <<"l","a","b","e","l">>,
         attrs |-> << <<"f","o","r">> >>] >>]

DEFAULT_CONFIG == BASE_CONFIG

\* export const SANITIZATION_CONFIGS
SANITIZATION_CONFIGS ==
    [base |-> BASE_CONFIG,
     strict |-> STRICT_CONFIG,
     liberal |-> LIBERAL_CONFIG,
     blog |-> BLOG_CONFIG,
     comment |-> COMMENT_CONFIG,
     email |-> EMAIL_CONFIG,
     admin |-> ADMIN_CONFIG]

-----------------------------------------------------------------------------
(* URL validator                                                           *)

Sentinel == <<"#">>
HttpPrefix == <<"h","t","t","p",":","/","/">>
HttpsPrefix == <<"h","t","t","p","s",":","/","/">>
MailtoPrefix == <<"m","a","i","l","t","o",":">>
HttpWord == <<"h","t","t","p">>

\* [\w.-]
DomainChars == WordChars \cup {".", "-"}

\* /^[\w.-]+\.[\w\.-]+/.test(url): the pattern is anchored at the start
\* only, so it matches when some prefix of url has the shape.
SimpleDomainPattern(url) ==
    \E i \in 1..(Len(url) - 2) :
        /\ url[i + 1] = "."
        /\ AllIn(url, 1, i, DomainChars)
        /\ \E j \in (i + 2)..Len(url) : AllIn(url, i + 2, j, DomainChars)

\* sanitizeUrl of the documented xssGuard module.
sanitizeUrl(url) ==
    IF url = <<>> THEN Sentinel
    ELSE IF \/ startsWith(url, HttpPrefix)
            \/ startsWith(url, HttpsPrefix)
            \/ startsWith(url, MailtoPrefix)
         THEN url
    ELSE IF SimpleDomainPattern(url) THEN HttpsPrefix \o url
    ELSE Sentinel

\* [\w\-\._~:/?#[\]@!\$&'\(\)\*\+,;=.]
UrlTailChars == WordChars \cup
    {"-", ".", "_", "~", ":", "/", "?", "#", "[", "]", "@", "!", "$", "&",
     "'", "(", ")", "*", "+", ",", ";", "="}

\* (?:(?:https?|mailto):\/\/)? : the lengths of the optional prefix that
\* the pattern can consume at the start of url.
UrlPatternPrefixLens(url) ==
    {0} \cup {Len(p) : p \in {q \in {HttpPrefix, HttpsPrefix, MailtoPrefix \o <<"/","/">>} :
                                startsWith(url, q)}}

\* urlPattern.test(url) of the first variant:
\* ^(?:(?:https?|mailto):\/\/)?[\w.-]+(?:\.[\w\.-]+)+[tail]+$
\* After the optional prefix (p characters) come a run of [\w.-] up to i,
\* the groups \.[\w.-]+ from i+1 up to j (any run of [\w.-] of length two
\* or more that starts with a dot is such a group) and the tail up to the
\* end of the string.
urlPattern(url) ==
    \E p \in UrlPatternPrefixLens(url) :
      \E i \in (p + 1)..(Len(url) - 3) :
        /\ url[i + 1] = "."
        /\ AllIn(url, p + 1, i, DomainChars)
        /\ \E j \in (i + 2)..(Len(url) - 1) :
              /\ AllIn(url, i + 2, j, DomainChars)
              /\ AllIn(url, j + 1, Len(url), UrlTailChars)

\* sanitizeUrl of the first variant.
sanitizeUrl_v1(url) ==
    IF url = <<>> THEN Sentinel
    ELSE IF urlPattern(url)
         THEN IF ~startsWith(url, HttpWord) /\ ~startsWith(url, MailtoPrefix)
              THEN HttpsPrefix \o url
              ELSE url
    ELSE Sentinel

\* The inputs of the URL validator: a prefix (none, an allowlisted scheme,
\* a disallowed one, a look-alike) followed by a short body.
UrlBodyChars == {"a", ".", ":", "/", " "}
UrlPrefixes ==
    { <<>>, HttpPrefix, HttpsPrefix, MailtoPrefix, HttpWord,
      <<"j","a","v","a","s","c","r","i","p","t",":">>,
      <<"d","a","t","a",":">>,
      <<"v","b","s","c","r","i","p","t",":">>,
      <<"f","t","p",":","/","/">> }
UrlInputs == {p \o b : p \in UrlPrefixes, b \in SeqsUpTo(UrlBodyChars, MaxUrlBody)}

InitUrl ==
    /\ op = "none"
    /\ arg \in UrlInputs
    /\ domMode = "ok"
    /\ ret = NoResult
    /\ registry = SANITIZATION_CONFIGS

CallSanitizeUrl ==
    /\ op = "none"
    /\ op' = "sanitizeUrl"
    /\ ret' = Returned(sanitizeUrl(arg))
    /\ UNCHANGED <<arg, domMode, registry>>

CallSanitizeUrlV1 ==
    /\ op = "none"
    /\ op' = "sanitizeUrl_v1"
    /\ ret' = Returned(sanitizeUrl_v1(arg))
    /\ UNCHANGED <<arg, domMode, registry>>

NextUrl == CallSanitizeUrl \/ CallSanitizeUrlV1

SpecUrl == InitUrl /\ [][NextUrl]_vars

-----------------------------------------------------------------------------
(* Claims about the URL validator                                          *)

HasAllowlistedPrefix(s) ==
    \/ startsWith(s, HttpPrefix)
    \/ startsWith(s, HttpsPrefix)
    \/ startsWith(s, MailtoPrefix)

\* A scheme name (RFC 3986: a letter, then letters, digits, "+", "-", ".";
\* "_" is let in as a word character) followed by ":".
SchemeChars == WordChars \cup {"+", "-", "."}
HasScheme(s) ==
    \E i \in 1..Len(s) :
        /\ i + 1 <= Len(s)
        /\ s[1] \in Lower
        /\ AllIn(s, 1, i, SchemeChars)
        /\ s[i + 1] = ":"

BeginsWithDisallowedScheme(s) == HasScheme(s) /\ ~HasAllowlistedPrefix(s)

\* At least one "." with a non-whitespace character on either side of it,
\* and no disallowed scheme in front.
BareDomainShape(s) ==
    /\ ~BeginsWithDisallowedScheme(s)
    /\ \E i \in 2..(Len(s) - 1) :
          /\ s[i] = "."
          /\ s[i - 1] \notin SpaceChars \cup {"."}
          /\ s[i + 1] \notin SpaceChars \cup {"."}

UrlOps == {"sanitizeUrl", "sanitizeUrl_v1"}

\* C5: sanitizeUrl returns the sentinel "#" for the empty string and for
\* every input that begins with a scheme outside the allowlist.
C5_DisallowedSchemeYieldsSentinel ==
    (op \in UrlOps /\ (arg = <<>> \/ BeginsWithDisallowedScheme(arg)))
        => ret = Returned(Sentinel)

\* C6: every non-empty input that starts with http://, https:// or mailto:
\* is returned unchanged by sanitizeUrl.
C6_AllowlistedPrefixUnchanged ==
    (op \in UrlOps /\ arg # <<>> /\ HasAllowlistedPrefix(arg)) => ret = Returned(arg)

\* C7: for a non-empty input without an allowlisted prefix, sanitizeUrl
\* returns "https://" followed by the input exactly when the input has the
\* bare-domain shape, and the sentinel otherwise.
C7_BareDomainGetsHttps ==
    (op \in UrlOps /\ arg # <<>> /\ ~HasAllowlistedPrefix(arg))
        => ret = Returned(IF BareDomainShape(arg) THEN HttpsPrefix \o arg
                                                  ELSE Sentinel)

-----------------------------------------------------------------------------
(* The external DOM sanitizer primitive                                    *)
(*                                                                         *)
(* DOMPurify.sanitize(dirty, {ALLOWED_TAGS, ALLOWED_ATTR}) is not code of  *)
(* the repository.  It is modelled by what the spec says of it: the input  *)
(* is parsed as HTML, elements whose tag is not allowed are removed (the   *)
(* children of an ordinary element are kept, the content of a script or    *)
(* style element goes with it), attributes that are not allowed are        *)
(* removed, and the tree is serialised again, which closes the elements    *)
(* left open and writes the text characters < > as entities.  An input     *)
(* without any "<" is returned as it is.  A tag that the input never       *)
(* closes with ">" is dropped with everything after it, as an HTML parser  *)
(* does at the end of its input.  The primitive may also throw.            *)

TagNameChars == Lower \cup Digits

Script == <<"s","c","r","i","p","t">>
Style == <<"s","t","y","l","e">>
\* Elements that are removed together with their content.
ForbidContents == {Script, Style}

EntLt == <<"&","l","t",";">>
EntGt == <<"&","g","t",";">>

\* Elements without content and without an end tag.
VoidTags == {<<"b","r">>, <<"h","r">>, <<"i","m","g">>}

\* The text of a tag from index i up to the ">" at index j, split at white
\* space into the attributes it holds.
RECURSIVE SplitAttrs(_, _, _, _)
SplitAttrs(s, i, j, cur) ==
    IF i >= j THEN (IF cur = <<>> THEN <<>> ELSE <<cur>>)
    ELSE IF s[i] \in SpaceChars
         THEN (IF cur = <<>> THEN <<>> ELSE <<cur>>) \o SplitAttrs(s, i + 1, j, <<>>)
    ELSE SplitAttrs(s, i + 1, j, cur \o <<s[i]>>)

AttrName(a) ==
    LET e == IndexOfFrom(a, "=", 1) IN IF e = 0 THEN a ELSE SubSeq(a, 1, e - 1)
\* The value of an attribute, without the quotes around it if it has them.
AttrValue(a) ==
    LET e == IndexOfFrom(a, "=", 1)
        v == IF e = 0 THEN <<>> ELSE SubSeq(a, e + 1, Len(a))
    IN  IF Len(v) >= 2 /\ v[1] \in {"\"", "'"} /\ v[Len(v)] = v[1]
        THEN SubSeq(v, 2, Len(v) - 1)
        ELSE v

\* The attributes that are allowed, as the serialiser writes them.
RECURSIVE WriteAttrs(_, _)
WriteAttrs(attrs, allowedAttr) ==
    IF attrs = <<>> THEN <<>>
    ELSE (IF AttrName(Head(attrs)) \in allowedAttr
          THEN <<" ">> \o AttrName(Head(attrs)) \o <<"=", "\"">>
                   \o AttrValue(Head(attrs)) \o <<"\"">>
          ELSE <<>>)
         \o WriteAttrs(Tail(attrs), allowedAttr)

OpenTag(name, attrs) == <<"<">> \o name \o attrs \o <<">">>
ToSet(seq) == {seq[n] : n \in 1..Len(seq)}

CloseTag(name) == <<"<","/">> \o name \o <<">">>

\* The tag name that starts at index i: the longest run of name characters.
RECURSIVE TagNameAt(_, _)
TagNameAt(s, i) ==
    IF i <= Len(s) /\ s[i] \in TagNameChars
    THEN <<s[i]>> \o TagNameAt(s, i + 1)
    ELSE <<>>

\* The end tags of the open elements, innermost (the head of stack) first.
RECURSIVE CloseAll(_)
CloseAll(stack) ==
    IF stack = <<>> THEN <<>> ELSE CloseTag(Head(stack)) \o CloseAll(Tail(stack))

IsOpen(stack, name) == \E n \in 1..Len(stack) : stack[n] = name

\* The end tags written when the element name is closed: those of the
\* elements opened inside it, then its own.
RECURSIVE CloseUpTo(_, _)
CloseUpTo(stack, name) ==
    IF Head(stack) = name THEN CloseTag(name)
    ELSE CloseTag(Head(stack)) \o CloseUpTo(Tail(stack), name)

RECURSIVE PopUpTo(_, _)
PopUpTo(stack, name) ==
    IF Head(stack) = name THEN Tail(stack) ELSE PopUpTo(Tail(stack), name)

\* The index after the content of a script or style element whose start
\* tag ends at index j: after its end tag, or after the end of the input.
AfterRawText(s, name, j) ==
    LET e == IndexOfSubFrom(s, <<"<","/">> \o name, j + 1)
        g == IF e = 0 THEN 0 ELSE IndexOfFrom(s, ">", e)
    IN  IF g = 0 THEN Len(s) + 1 ELSE g + 1

RECURSIVE PurifyFrom(_, _, _, _)
PurifyFrom(s, i, options, stack) ==
    IF i > Len(s) THEN CloseAll(stack)
    ELSE IF s[i] = "<" /\ i + 1 <= Len(s) /\ s[i + 1] \in Lower
    THEN \* a start tag
        LET j == IndexOfFrom(s, ">", i + 1)
            name == TagNameAt(s, i + 1)
        IN  IF j = 0 THEN CloseAll(stack)
            ELSE IF name \in options.ALLOWED_TAGS
                 THEN OpenTag(name, WriteAttrs(SplitAttrs(s, i + 1 + Len(name), j, <<>>),
                                               options.ALLOWED_ATTR))
                          \o PurifyFrom(s, j + 1, options,
                                        IF name \in VoidTags THEN stack
                                        ELSE <<name>> \o stack)
            ELSE IF name \in ForbidContents
                 THEN PurifyFrom(s, AfterRawText(s, name, j), options, stack)
            ELSE PurifyFrom(s, j + 1, options, stack)
    ELSE IF s[i] = "<" /\ i + 2 <= Len(s) /\ s[i + 1] = "/" /\ s[i + 2] \in Lower
    THEN \* an end tag
        LET j == IndexOfFrom(s, ">", i + 2)
            name == TagNameAt(s, i + 2)
        IN  IF j = 0 THEN CloseAll(stack)
            ELSE IF IsOpen(stack, name)
                 THEN CloseUpTo(stack, name)
                          \o PurifyFrom(s, j + 1, options, PopUpTo(stack, name))
            ELSE PurifyFrom(s, j + 1, options, stack)
    ELSE IF s[i] = "<" THEN EntLt \o PurifyFrom(s, i + 1, options, stack)
    ELSE IF s[i] = ">" THEN EntGt \o PurifyFrom(s, i + 1, options, stack)
    ELSE <<s[i]>> \o PurifyFrom(s, i + 1, options, stack)

\* The options of a call: the sets of the tag names and of the attribute
\* names in the arrays that the caller passes.
DomOptions(tags, attrs) == [ALLOWED_TAGS |-> ToSet(tags), ALLOWED_ATTR |-> ToSet(attrs)]

\* DOMPurify.sanitize(dirty, options) when it returns.
Purify(dirty, options) ==
    IF ~(\E n \in 1..Len(dirty) : dirty[n] = "<") THEN dirty
    ELSE PurifyFrom(dirty, 1, options, <<>>)

\* Whether the nth call of the primitive made by an operation throws.
DomModes == {"ok", "throws", "throwsOnce"}
DomThrows(mode, nth) == mode = "throws" \/ (mode = "throwsOnce" /\ nth = 1)

-----------------------------------------------------------------------------
(* String sanitizers of the xssGuard module                                *)

\* value.replace(/<[^>]*>/g, ''): from each "<" up to the next ">"; a "<"
\* that no ">" follows stays.
RECURSIVE StripTags(_)
StripTags(s) ==
    IF s = <<>> THEN <<>>
    ELSE IF Head(s) = "<" /\ IndexOfFrom(s, ">", 2) # 0
         THEN StripTags(SubSeq(s, IndexOfFrom(s, ">", 2) + 1, Len(s)))
    ELSE <<Head(s)>> \o StripTags(Tail(s))

\* sanitizeString; nth counts the calls of the primitive made so far by
\* the operation that is running.
xssGuard_sanitizeString_from(value, mode, nth) ==
    IF value = <<>> THEN <<>>
    ELSE IF DomThrows(mode, nth) THEN StripTags(value)
    ELSE Purify(value, DomOptions(<<>>, <<>>))

xssGuard_sanitizeString(value, mode) == xssGuard_sanitizeString_from(value, mode, 1)

\* The first variant differs for a falsy value only, which it returns as
\* it is; the falsy string is ''.
xssGuard_sanitizeString_v1(value, mode) ==
    IF value = <<>> THEN value
    ELSE IF DomThrows(mode, 1) THEN StripTags(value)
    ELSE Purify(value, DomOptions(<<>>, <<>>))

\* allowedTags: string[] = ['b', 'i', 'u', 'p', 'span', 'br']
DefaultAllowedTags ==
    << <<"b">>, <<"i">>, <<"u">>, <<"p">>, <<"s","p","a","n">>, <<"b","r">> >>

\* ALLOWED_ATTR: ['class', 'style']
ClassStyle == << <<"c","l","a","s","s">>, <<"s","t","y","l","e">> >>

\* sanitizeHTML (both variants have the same text).
xssGuard_sanitizeHTML(html, allowedTags, mode) ==
    IF html = <<>> THEN <<>>
    ELSE IF DomThrows(mode, 1) THEN xssGuard_sanitizeString_from(html, mode, 2)
    ELSE Purify(html, DomOptions(allowedTags, ClassStyle))

-----------------------------------------------------------------------------
(* String sanitizer of utils/sanitizer.ts                                  *)

\* /<\/?[a-z][\s\S]*>/i.test(value.trim())
looksLikeHtml(value) ==
    LET t == trim(value) IN
    \E i \in 1..Len(t) :
        /\ t[i] = "<"
        /\ \E j \in (i + 2)..Len(t) :
              /\ t[j] = ">"
              /\ \/ t[i + 1] \in Lower
                 \/ (i + 2 < j /\ t[i + 1] = "/" /\ t[i + 2] \in Lower)

\* /word\s*c/ occurs in s
WordSpacesChar(s, word, c) ==
    \E i \in 1..Len(s) :
        /\ OccursAt(s, word, i)
        /\ \E j \in (i + Len(word))..Len(s) :
              /\ s[j] = c
              /\ AllIn(s, i + Len(word), j - 1, SpaceChars)

\* /on\w+\s*=/ occurs in s
OnHandler(s) ==
    \E i \in 1..Len(s) :
        /\ OccursAt(s, <<"o","n">>, i)
        /\ \E j \in (i + 3)..Len(s) :
              /\ s[j] = "="
              /\ \E k \in (i + 2)..(j - 1) :
                    /\ AllIn(s, i + 2, k, WordChars)
                    /\ AllIn(s, k + 1, j - 1, SpaceChars)

isDangerous(value) ==
    \/ Contains(value, <<"j","a","v","a","s","c","r","i","p","t",":">>)
    \/ OnHandler(value)
    \/ Contains(value, <<"<">> \o Script)
    \/ WordSpacesChar(value, <<"e","v","a","l">>, "(")
    \/ WordSpacesChar(value, <<"e","x","p","r","e","s","s","i","o","n">>, "(")

\* [\x00-\x08\x0B\x0C\x0E-\x1F\x7F]; NUL and DEL stand for \x00 and \x7F.
ControlChars == {"NUL", "\f", "DEL"}

\* The verdict of the dangerous-content check on a string.  The code asks
\* isDangerous; the other verdicts are those of a run that differs from it
\* in nothing but what the check answers.
Verdicts == {"isDangerous", "none", "all", "inverse"}
DangerousVerdict(verdicts, value) ==
    IF verdicts = "isDangerous" THEN isDangerous(value)
    ELSE IF verdicts = "none" THEN FALSE
    ELSE IF verdicts = "all" THEN TRUE
    ELSE ~isDangerous(value)

\* The plain-text path of sanitizeString (lines 51-55).
StripPlainText(trimmed) ==
    trim(RemoveChars(RemoveChars(RemoveChars(trimmed, {"<", ">"}), {"NUL"}),
                     ControlChars))

\* A sanitizeString that would sanitize markup only when the check flags it.
sanitizeStringLogged_OnlyIfDangerous(value, config, mode, verdicts) ==
    LET trimmed == trim(value) IN
    IF trimmed = <<>> THEN [outcome |-> Returned(<<>>), log |-> <<>>]
    ELSE IF looksLikeHtml(trimmed)
         THEN IF ~DangerousVerdict(verdicts, trimmed)
              THEN [outcome |-> Returned(trimmed), log |-> <<>>]
              ELSE IF DomThrows(mode, 1) THEN [outcome |-> Threw, log |-> <<>>]
              ELSE [outcome |-> Returned(Purify(trimmed,
                                    DomOptions(config.allowedTags,
                                               FlatValues(config.allowedAttributes)))),
                    log |-> <<>>]
    ELSE [outcome |-> Returned(StripPlainText(trimmed)), log |-> <<>>]

\* sanitizeString with what it hands to logger.debug (lines 43-47).
sanitizeStringLogged(value, config, mode, verdicts) ==
    LET trimmed == trim(value) IN
    IF trimmed = <<>> THEN [outcome |-> Returned(<<>>), log |-> <<>>]
    ELSE IF looksLikeHtml(trimmed)
         THEN IF DomThrows(mode, 1) THEN [outcome |-> Threw, log |-> <<>>]
              ELSE LET sanitized == Purify(trimmed,
                                      DomOptions(config.allowedTags,
                                                 FlatValues(config.allowedAttributes)))
                   IN  [outcome |-> Returned(sanitized),
                        log |-> IF sanitized # trimmed
                                THEN <<[message |-> "HTML content sanitized",
                                        dangerous_content_removed |->
                                            DangerousVerdict(verdicts, trimmed)]>>
                                ELSE <<>>]
    ELSE [outcome |-> Returned(StripPlainText(trimmed)), log |-> <<>>]

\* sanitizeString(value, config) for a string value: the outcome is the
\* string returned, or the exception of the primitive, which nothing here
\* catches.
sanitizeString(value, config, mode) ==
    sanitizeStringLogged(value, config, mode, "isDangerous").outcome

\* ALLOWED_TAGS and ALLOWED_ATTR of utils/html.ts
HtmlAllowedTags == << <<"p">>, <<"b","r">>, <<"s","t","r","o","n","g">>, <<"e","m">>, <<"u">>, <<"o","l">>, <<"u","l">>, <<"l","i">>, <<"a">> >>
HtmlAllowedAttr == << <<"h","r","e","f">>, <<"t","a","r","g","e","t">> >>

\* sanitizeHtml of utils/html.ts
sanitizeHtml(html, mode) ==
    IF DomThrows(mode, 1) THEN Threw
    ELSE Returned(Purify(html, DomOptions(HtmlAllowedTags, HtmlAllowedAttr)))

-----------------------------------------------------------------------------
(* Calls of the string sanitizers                                          *)

\* The inputs: up to MaxFrags pieces of text and markup, one after another.
StrFrags ==
    { <<"x">>, <<" ">>, <<"<">>, <<">">>,
      <<"<","b",">">>, <<"<","/","b",">">>, <<"<","u",">">>,
      <<"<","b"," ","c","l","a","s","s","=","x",">">>,
      <<"<","s","c","r","i","p","t",">","x","<","/","s","c","r","i","p","t",">">>,
      <<"<","s","c","r","i","p","t"," ","s","r","c","=","x">> }
StrInputs == {Concat(fs) : fs \in SeqsUpTo(StrFrags, MaxFrags)}

\* The optional second argument of a call: none, a list of allowed tags
\* (sanitizeHTML) or a configuration (sanitizeString of utils/sanitizer.ts).
TagLists == { << <<"b">> >>, << >> }
StrOptions ==
    {[kind |-> "none"]}
        \cup {[kind |-> "tags", allowedTags |-> l] : l \in TagLists}
        \cup {[kind |-> "config", config |-> c] : c \in {STRICT_CONFIG}}

AllowedTagsOf(o) == IF o.kind = "tags" THEN o.allowedTags ELSE DefaultAllowedTags
ConfigOf(o) == IF o.kind = "config" THEN o.config ELSE DEFAULT_CONFIG

InitStr ==
    /\ op = "none"
    /\ arg \in [value : StrInputs, options : StrOptions]
    /\ domMode \in DomModes
    /\ ret = NoResult
    /\ registry = SANITIZATION_CONFIGS

CallXssGuardSanitizeString ==
    /\ op = "none" /\ arg.options.kind = "none"
    /\ op' = "xssGuard_sanitizeString"
    /\ ret' = Returned(xssGuard_sanitizeString(arg.value, domMode))
    /\ UNCHANGED <<arg, domMode, registry>>

CallXssGuardSanitizeStringV1 ==
    /\ op = "none" /\ arg.options.kind = "none"
    /\ op' = "xssGuard_sanitizeString_v1"
    /\ ret' = Returned(xssGuard_sanitizeString_v1(arg.value, domMode))
    /\ UNCHANGED <<arg, domMode, registry>>

CallXssGuardSanitizeHTML ==
    /\ op = "none" /\ arg.options.kind \in {"none", "tags"}
    /\ op' = "xssGuard_sanitizeHTML"
    /\ ret' = Returned(xssGuard_sanitizeHTML(arg.value, AllowedTagsOf(arg.options), domMode))
    /\ UNCHANGED <<arg, domMode, registry>>

CallSanitizeString ==
    /\ op = "none" /\ arg.options.kind \in {"none", "config"}
    /\ op' = "sanitizeString"
    /\ ret' = sanitizeString(arg.value, ConfigOf(arg.options), domMode)
    /\ UNCHANGED <<arg, domMode, registry>>

CallSanitizeHtml ==
    /\ op = "none" /\ arg.options.kind = "none"
    /\ op' = "sanitizeHtml"
    /\ ret' = sanitizeHtml(arg.value, domMode)
    /\ UNCHANGED <<arg, domMode, registry>>

NextStr ==
    \/ CallXssGuardSanitizeString
    \/ CallXssGuardSanitizeStringV1
    \/ CallXssGuardSanitizeHTML
    \/ CallSanitizeString
    \/ CallSanitizeHtml

SpecStr == InitStr /\ [][NextStr]_vars

-----------------------------------------------------------------------------
(* Claims about the string sanitizers                                      *)

NoRawAngle(s) == \A n \in 1..Len(s) : s[n] \notin {"<", ">"}

\* C8: when the DOM sanitizer primitive throws, sanitizeString and
\* sanitizeHTML of the xssGuard module still return a string, and it holds
\* no raw "<" or ">".
C8_FailSafeNoRawMarkup ==
    (op \in {"xssGuard_sanitizeString", "xssGuard_sanitizeHTML"} /\ domMode = "throws")
        => (ret.status = "returned" /\ NoRawAngle(ret.value))

\* C9: a failure of the DOM sanitizer primitive is never propagated to the
\* caller of a string sanitizer: every call returns normally.
C9_PrimitiveFailureNotPropagated ==
    op # "none" => ret.status = "returned"

\* The tag names of which s holds a marker.
MarkedTags(s) ==
    {TagNameAt(s, i + 1) : i \in {n \in 1..(Len(s) - 1) : s[n] = "<" /\ s[n + 1] \in Lower}}
        \cup {TagNameAt(s, i + 2) :
                i \in {n \in 1..(Len(s) - 2) :
                          s[n] = "<" /\ s[n + 1] = "/" /\ s[n + 2] \in Lower}}

\* s holds a complete start tag of the element name, which is not itself
\* inside another tag (every "<" before it is followed by a ">").
HasStartTag(s, name) ==
    \E i \in 1..Len(s) :
        /\ s[i] = "<"
        /\ TagNameAt(s, i + 1) = name
        /\ IndexOfFrom(s, ">", i + 1) # 0
        /\ \A k \in 1..(i - 1) :
              s[k] = "<" => \E g \in (k + 1)..(i - 1) : s[g] = ">"

\* C10: the output of sanitizeHTML holds no marker of a tag outside the
\* allowed list, and the elements of the input whose tag is in the list
\* are kept (inputs without script content), whether the primitive works
\* or throws.
C10_AllowlistSoundness ==
    op = "xssGuard_sanitizeHTML" =>
        LET allowed == ToSet(AllowedTagsOf(arg.options)) IN
        /\ ret.status = "returned"
        /\ MarkedTags(ret.value) \subseteq allowed
        /\ \A name \in allowed :
              (HasStartTag(arg.value, name) /\ ~Contains(arg.value, <<"<">> \o Script))
                  => name \in MarkedTags(ret.value)

\* The outcome of applying the sanitizer of the call again, to the string it
\* returned, with the same second argument and the same primitive.
SanitizedAgain ==
    IF op = "xssGuard_sanitizeString"
    THEN Returned(xssGuard_sanitizeString(ret.value, domMode))
    ELSE IF op = "xssGuard_sanitizeHTML"
    THEN Returned(xssGuard_sanitizeHTML(ret.value, AllowedTagsOf(arg.options), domMode))
    ELSE sanitizeString(ret.value, ConfigOf(arg.options), domMode)

\* C11: sanitizing is idempotent: sanitizeString applied to its own result
\* returns it unchanged, and so does sanitizeHTML with the same allowed
\* tags, on the trimming and on the regex fallback paths too.
C11_Idempotent ==
    (op \in {"xssGuard_sanitizeString", "xssGuard_sanitizeHTML", "sanitizeString"}
        /\ ret.status = "returned")
        => SanitizedAgain = ret

-----------------------------------------------------------------------------
(* Composite values                                                        *)
(*                                                                         *)
(* A JavaScript value is a record tagged by t: a string, a number, a       *)
(* boolean, null, undefined, a Date, a RegExp, an array (its elements) or  *)
(* a plain object (its own enumerable entries, in insertion order).        *)

StrV(s) == [t |-> "str", s |-> s]
NumV(n) == [t |-> "num", n |-> n]
BoolV(b) == [t |-> "bool", b |-> b]
NullV == [t |-> "null"]
UndefV == [t |-> "undef"]
DateV == [t |-> "date"]
RegExpV == [t |-> "regexp"]
SeqV(elems) == [t |-> "seq", elems |-> elems]
MapV(ents) == [t |-> "map", ents |-> ents]
Entry(k, v) == [k |-> k, v |-> v]

\* typeof v === 'object' (null included)
TypeofObject(v) == v.t \in {"null", "date", "regexp", "seq", "map"}

\* !v : the falsy values
Falsy(v) ==
    \/ v.t \in {"null", "undef"}
    \/ (v.t = "str" /\ v.s = <<>>)
    \/ (v.t = "num" /\ v.n = 0)
    \/ (v.t = "bool" /\ ~v.b)

\* Object.entries(v): a Date and a RegExp have no own enumerable property.
ObjectEntries(v) == IF v.t = "map" THEN v.ents ELSE <<>>

\* Object.keys(v)
ObjectKeys(v) == [n \in 1..Len(ObjectEntries(v)) |-> ObjectEntries(v)[n].k]

HasKey(ents, k) == \E n \in 1..Len(ents) : ents[n].k = k

\* The value of the entry of key k (the key is present).
ValueOf(ents, k) == ents[CHOOSE n \in 1..Len(ents) : ents[n].k = k].v

\* { ...a, ...b } : the entries of a, a value replaced by the one b gives
\* for its key, then the entries of b whose key a has not.
Spread(a, b) ==
    [n \in 1..Len(a) |->
        IF HasKey(b, a[n].k) THEN Entry(a[n].k, ValueOf(b, a[n].k)) ELSE a[n]]
    \o SelectSeq(b, LAMBDA e : ~HasKey(a, e.k))

\* export const SENSITIVE_FIELDS (types/sanitization)
SENSITIVE_FIELDS ==
    <<"password", "confirmPassword", "passwordConfirm", "adminPassword", "token",
      "accessToken", "refreshToken", "apiKey", "secret", "privateKey">>

\* SENSITIVE_FIELDS.includes(k)
includes(list, k) == \E n \in 1..Len(list) : list[n] = k

-----------------------------------------------------------------------------
(* Structural sanitizer of utils/sanitizer.ts                              *)

\* What sanitizeObject keeps while it walks the input: the sanitized flag,
\* the warnings, and (for the claims) the strings handed to sanitizeString
\* and to isDangerous, each with the path of its leaf.
NewWalk == [sanitized |-> FALSE, warnings |-> <<>>, cleanedAt |-> <<>>, checkedAt |-> <<>>]

Warning(path) == "Dangerous content removed from: " \o path

\* A walk that would exempt the sensitive keys of the top-level mapping only.
IsPassedThrough_TopLevelOnly(k, path) == includes(SENSITIVE_FIELDS, k) /\ path = ""

\* Line 96: the entry of key k is passed through.
IsPassedThrough(k, path) == includes(SENSITIVE_FIELDS, k)

\* An entry path that would put the "." before a top-level key too.
EntryPath_AlwaysDot(path, k) == path \o "." \o k

\* Line 98: path ? `${path}.${k}` : k
EntryPath(path, k) == IF path # "" THEN path \o "." \o k ELSE k

\* Line 92: `${path}[${i}]`, for the element at index n of the sequence
\* (i = n - 1).
ElemPath(path, n) == path \o "[" \o ToString(n - 1) \o "]"

\* The outcome of sanitizeValue: the value returned and the walk after it,
\* or threw = TRUE when sanitizeString threw.
RECURSIVE sanitizeValue(_, _, _, _)
RECURSIVE sanitizeElems(_, _, _, _, _, _)
RECURSIVE sanitizeEntries(_, _, _, _, _, _)

\* val.map((v, i) => sanitizeValue(v, `${path}[${i}]`)), from element n on;
\* done holds the elements already sanitized.
sanitizeElems(elems, n, done, path, env, walk) ==
    IF n > Len(elems) THEN [threw |-> FALSE, val |-> SeqV(done), walk |-> walk]
    ELSE LET r == sanitizeValue(elems[n], ElemPath(path, n), env, walk)
         IN  IF r.threw THEN r
             ELSE sanitizeElems(elems, n + 1, Append(done, r.val), path, env, r.walk)

\* Object.entries(val).map(([k, v]) => ...), from entry n on.
sanitizeEntries(ents, n, done, path, env, walk) ==
    IF n > Len(ents) THEN [threw |-> FALSE, val |-> MapV(done), walk |-> walk]
    ELSE IF IsPassedThrough(ents[n].k, path)
         THEN sanitizeEntries(ents, n + 1, Append(done, ents[n]), path, env, walk)
    ELSE LET r == sanitizeValue(ents[n].v, EntryPath(path, ents[n].k), env, walk)
         IN  IF r.threw THEN r
             ELSE sanitizeEntries(ents, n + 1, Append(done, Entry(ents[n].k, r.val)),
                                  path, env, r.walk)

\* env holds the configuration, the behaviour of the primitive and the
\* verdicts of the dangerous-content check.
sanitizeValue(val, path, env, walk) ==
    IF val.t \in {"null", "undef"} THEN [threw |-> FALSE, val |-> val, walk |-> walk]
    ELSE IF val.t = "str"
    THEN LET r == sanitizeStringLogged(val.s, env.config, env.mode, env.verdicts).outcome
             w1 == [walk EXCEPT !.cleanedAt = Append(@, [path |-> path, value |-> val.s])]
         IN  IF r.status = "threw" THEN [threw |-> TRUE, val |-> val, walk |-> w1]
             ELSE IF val.s # r.value
                  THEN [threw |-> FALSE, val |-> StrV(r.value),
                        walk |-> [w1 EXCEPT
                            !.sanitized = TRUE,
                            !.checkedAt = Append(@, [path |-> path, value |-> val.s]),
                            !.warnings = IF DangerousVerdict(env.verdicts, val.s)
                                         THEN Append(@, Warning(path)) ELSE @]]
             ELSE [threw |-> FALSE, val |-> StrV(r.value), walk |-> w1]
    ELSE IF val.t = "seq" THEN sanitizeElems(val.elems, 1, <<>>, path, env, walk)
    ELSE IF TypeofObject(val) /\ val.t \notin {"date", "regexp"}
    THEN sanitizeEntries(ObjectEntries(val), 1, <<>>, path, env, walk)
    ELSE [threw |-> FALSE, val |-> val, walk |-> walk]

\* A sanitizeObject that would set the flag only where it warns.
sanitizeObject_FlagOnWarning(input, config, mode) ==
    LET r == sanitizeValue(input, "",
                           [config |-> config, mode |-> mode, verdicts |-> "isDangerous"],
                           NewWalk)
    IN  IF r.threw THEN [status |-> "threw", walk |-> r.walk]
        ELSE [status |-> "returned",
              value |-> [data |-> r.val, sanitized |-> r.walk.warnings # <<>>,
                         warnings |-> r.walk.warnings],
              walk |-> r.walk]

\* sanitizeObject(input, config): { data, sanitized, warnings }, or the
\* exception.  The outcome also carries the walk.
sanitizeObjectUnder(input, config, mode, verdicts) ==
    LET r == sanitizeValue(input, "",
                           [config |-> config, mode |-> mode, verdicts |-> verdicts],
                           NewWalk)
    IN  IF r.threw THEN [status |-> "threw", walk |-> r.walk]
        ELSE [status |-> "returned",
              value |-> [data |-> r.val, sanitized |-> r.walk.sanitized,
                         warnings |-> r.walk.warnings],
              walk |-> r.walk]

sanitizeObject(input, config, mode) ==
    sanitizeObjectUnder(input, config, mode, "isDangerous")

-----------------------------------------------------------------------------
(* Structural sanitizers of the xssGuard module                            *)

\* /<script\b[^>]*>(.*?)<\/script>/gi.test(value): a new RegExp at each
\* evaluation, so the search starts at the beginning of value.
ScriptElementPattern(value) ==
    \E i \in 1..Len(value) :
        /\ OccursAt(value, <<"<">> \o Script, i)
        /\ i + 7 <= Len(value)
        /\ value[i + 7] \notin WordChars
        /\ \E j \in (i + 7)..Len(value) :
              /\ value[j] = ">"
              /\ \A n \in (i + 7)..(j - 1) : value[n] # ">"
              /\ \E k \in (j + 1)..Len(value) :
                    /\ OccursAt(value, <<"<","/">> \o Script \o <<">">>, k)
                    /\ \A n \in (j + 1)..(k - 1) : value[n] \notin {"\n", "\r"}

\* What the documented variant does to a string item or property.
xssGuard_cleanString(value) ==
    IF ScriptElementPattern(value) THEN <<>> ELSE StripTags(value)

RECURSIVE xssGuard_sanitizeObject(_)
xssGuard_sanitizeObject(obj) ==
    IF Falsy(obj) \/ ~TypeofObject(obj) THEN obj
    ELSE IF obj.t = "seq"
    THEN SeqV([n \in 1..Len(obj.elems) |->
            LET item == obj.elems[n] IN
            IF item.t = "str" THEN StrV(xssGuard_cleanString(item.s))
            ELSE IF ~Falsy(item) /\ TypeofObject(item) THEN xssGuard_sanitizeObject(item)
            ELSE item])
    ELSE MapV([n \in 1..Len(ObjectEntries(obj)) |->
            LET key == ObjectEntries(obj)[n].k
                value == ObjectEntries(obj)[n].v
            IN  IF value.t = "str" THEN Entry(key, StrV(xssGuard_cleanString(value.s)))
                ELSE IF ~Falsy(value) /\ TypeofObject(value)
                     THEN Entry(key, xssGuard_sanitizeObject(value))
                ELSE Entry(key, value)])

\* The first variant: the items of an array go through sanitizeObject, the
\* string properties of an object through sanitizeString.
RECURSIVE xssGuard_sanitizeObject_v1(_, _)
xssGuard_sanitizeObject_v1(obj, mode) ==
    IF Falsy(obj) \/ ~TypeofObject(obj) THEN obj
    ELSE IF obj.t = "seq"
    THEN SeqV([n \in 1..Len(obj.elems) |-> xssGuard_sanitizeObject_v1(obj.elems[n], mode)])
    ELSE MapV([n \in 1..Len(ObjectEntries(obj)) |->
            LET key == ObjectEntries(obj)[n].k
                value == ObjectEntries(obj)[n].v
            IN  IF value.t = "str"
                THEN Entry(key, StrV(xssGuard_sanitizeString_v1(value.s, mode)))
                ELSE IF TypeofObject(value) /\ value.t # "null"
                     THEN Entry(key, xssGuard_sanitizeObject_v1(value, mode))
                ELSE Entry(key, value)])

-----------------------------------------------------------------------------
(* Sensitive-field pipelines                                               *)

\* utils/sanitizer.ts
extractSensitiveValues(data) ==
    SelectSeq(ObjectEntries(data), LAMBDA e : includes(SENSITIVE_FIELDS, e.k))

\* A removeSensitiveFields that would copy data and blank nothing.
removeSensitiveFields_BlanksNothing(data) ==
    MapV(ObjectEntries(data))

removeSensitiveFields(data) ==
    MapV([n \in 1..Len(ObjectEntries(data)) |->
            LET e == ObjectEntries(data)[n] IN
            IF includes(SENSITIVE_FIELDS, e.k) THEN Entry(e.k, StrV(<<>>)) ELSE e])

restoreSensitiveValues(sanitizedData, sensitiveValues) ==
    MapV(Spread(ObjectEntries(sanitizedData), sensitiveValues))

\* config is undefined when the caller gives none, and sanitizeObject then
\* takes its default.
sanitizeRequestData(data, config, mode) ==
    LET sensitiveValues == extractSensitiveValues(data)
        withoutSensitive == removeSensitiveFields(data)
        result == sanitizeObject(withoutSensitive, config, mode)
    IN  IF result.status = "threw" THEN result
        ELSE [result EXCEPT
                !.value.data = restoreSensitiveValues(result.value.data, sensitiveValues)]

\* utils/sensitive (part_003): the keys are a parameter, and a key whose
\* value is undefined is not extracted.
sensitive_extractSensitiveValues(data, sensitiveKeys) ==
    SelectSeq(ObjectEntries(data),
              LAMBDA e : includes(sensitiveKeys, e.k) /\ e.v # UndefV)

sensitive_removeSensitiveFields(data, sensitiveKeys) ==
    MapV([n \in 1..Len(ObjectEntries(data)) |->
            LET e == ObjectEntries(data)[n] IN
            IF includes(sensitiveKeys, e.k) THEN Entry(e.k, StrV(<<>>)) ELSE e])

sensitive_restoreSensitiveValues(sanitizedData, sensitiveValues) ==
    MapV(Spread(ObjectEntries(sanitizedData), sensitiveValues))

\* utils/sanitize.ts: sanitizeRequestData(data, sensitiveKeys), over the
\* sanitizeObject of the xssGuard module.
sanitize_sanitizeRequestData(data, sensitiveKeys) ==
    LET sensitiveValues == sensitive_extractSensitiveValues(data, sensitiveKeys)
        preparedData == sensitive_removeSensitiveFields(data, sensitiveKeys)
        sanitizedData == xssGuard_sanitizeObject(preparedData)
    IN  sensitive_restoreSensitiveValues(sanitizedData, sensitiveValues)

\* The password-aware helpers (part_004) and their own list.
helpers_SENSITIVE_FIELDS ==
    <<"password", "confirmPassword", "passwordConfirm", "adminPassword">>

helpers_extractSensitiveValues(data) ==
    SelectSeq(ObjectEntries(data),
              LAMBDA e : includes(helpers_SENSITIVE_FIELDS, e.k) /\ e.v # UndefV)

helpers_removeSensitiveFields(data) ==
    MapV([n \in 1..Len(ObjectEntries(data)) |->
            LET e == ObjectEntries(data)[n] IN
            IF includes(helpers_SENSITIVE_FIELDS, e.k) THEN Entry(e.k, StrV(<<>>)) ELSE e])

helpers_restoreSensitiveValues(sanitizedData, sensitiveValues) ==
    MapV(Spread(ObjectEntries(sanitizedData), sensitiveValues))

helpers_sanitizeRequestData(data) ==
    LET sensitiveValues == helpers_extractSensitiveValues(data)
        preparedData == helpers_removeSensitiveFields(data)
        sanitizedData == xssGuard_sanitizeObject(preparedData)
    IN  helpers_restoreSensitiveValues(sanitizedData, sensitiveValues)

-----------------------------------------------------------------------------
(* Calls of the structural sanitizers and of the pipelines                 *)

\* The strings of the inputs: empty, plain, padded, markup that the base
\* configuration allows, a script element followed by text, and a lone "<".
PlainText == <<"x">>
PaddedText == <<" ", "x">>
BoldMarkup == <<"<","b",">","x","<","/","b",">">>
ScriptMarkup == <<"<","s","c","r","i","p","t",">","x","<","/","s","c","r","i","p","t",">","y">>
LoneAngle == <<"x", "<">>
\* Text that isDangerous flags and that sanitizeString leaves as it is.
HandlerText == <<"o","n","x","=">>
ObjStrings == {<<>>, PlainText, PaddedText, BoldMarkup, ScriptMarkup, LoneAngle, HandlerText}

LeafVals ==
    {StrV(x) : x \in ObjStrings}
        \cup {NumV(0), NumV(1), BoolV(TRUE), NullV, UndefV, DateV, RegExpV}

\* Nested composites: one and two levels under the top one.
DeepLeaves == {StrV(ScriptMarkup), DateV}
Deep1 ==
    {SeqV(<<x>>) : x \in DeepLeaves}
        \cup {MapV(<<Entry(k, x)>>) : k \in {"name", "password"}, x \in DeepLeaves}
Deep2 ==
    {SeqV(<<c>>) : c \in Deep1} \cup {MapV(<<Entry("name", c)>>) : c \in Deep1}

ElemVals == LeafVals \cup Deep1
EntryVals == LeafVals \cup Deep1 \cup Deep2

\* What a caller may store under a sensitive key.
SecretVals ==
    {UndefV, StrV(<<>>), StrV(ScriptMarkup), NumV(1), DateV,
     MapV(<<Entry("name", StrV(ScriptMarkup))>>)}

Absent == [t |-> "absent"]

\* The mappings: the keys name, password, token and bio, each one absent
\* or present, in this order.
MapInputs ==
    {MapV(SelectSeq(<<Entry("name", a), Entry("password", b),
                      Entry("token", c), Entry("bio", d)>>,
                    LAMBDA e : e.v # Absent)) :
        a \in EntryVals \cup {Absent},
        b \in SecretVals \cup {Absent},
        c \in {StrV(ScriptMarkup), UndefV, Absent},
        d \in {StrV(ScriptMarkup), StrV(LoneAngle), Absent}}

SeqInputs == {SeqV(es) : es \in SeqsUpTo(ElemVals, MaxElems)}

ObjInputs == LeafVals \cup Deep2 \cup SeqInputs \cup MapInputs

ObjOptions ==
    {[kind |-> "none"],
     [kind |-> "config", config |-> STRICT_CONFIG],
     [kind |-> "keys", sensitiveKeys |-> SENSITIVE_FIELDS]}

InitObj ==
    /\ op = "none"
    /\ arg \in [value : ObjInputs, options : ObjOptions]
    /\ domMode \in {"ok", "throws"}
    /\ ret = NoResult
    /\ registry = SANITIZATION_CONFIGS

CallSanitizeObject ==
    /\ op = "none" /\ arg.options.kind \in {"none", "config"}
    /\ op' = "sanitizeObject"
    /\ ret' = sanitizeObject(arg.value, ConfigOf(arg.options), domMode)
    /\ UNCHANGED <<arg, domMode, registry>>

CallSanitizeRequestData ==
    /\ op = "none" /\ arg.options.kind \in {"none", "config"}
    /\ arg.value.t = "map"
    /\ op' = "sanitizeRequestData"
    /\ ret' = sanitizeRequestData(arg.value, ConfigOf(arg.options), domMode)
    /\ UNCHANGED <<arg, domMode, registry>>

CallXssGuardSanitizeObject ==
    /\ op = "none" /\ arg.options.kind = "none"
    /\ op' = "xssGuard_sanitizeObject"
    /\ ret' = Returned(xssGuard_sanitizeObject(arg.value))
    /\ UNCHANGED <<arg, domMode, registry>>

CallXssGuardSanitizeObjectV1 ==
    /\ op = "none" /\ arg.options.kind = "none"
    /\ op' = "xssGuard_sanitizeObject_v1"
    /\ ret' = Returned(xssGuard_sanitizeObject_v1(arg.value, domMode))
    /\ UNCHANGED <<arg, domMode, registry>>

CallHelpersSanitizeRequestData ==
    /\ op = "none" /\ arg.options.kind = "none"
    /\ arg.value.t = "map"
    /\ op' = "helpers_sanitizeRequestData"
    /\ ret' = Returned(helpers_sanitizeRequestData(arg.value))
    /\ UNCHANGED <<arg, domMode, registry>>

CallSanitizeSanitizeRequestData ==
    /\ op = "none" /\ arg.options.kind = "keys"
    /\ arg.value.t = "map"
    /\ op' = "sanitize_sanitizeRequestData"
    /\ ret' = Returned(sanitize_sanitizeRequestData(arg.value, arg.options.sensitiveKeys))
    /\ UNCHANGED <<arg, domMode, registry>>

NextObj ==
    \/ CallSanitizeObject
    \/ CallSanitizeRequestData
    \/ CallXssGuardSanitizeObject
    \/ CallXssGuardSanitizeObjectV1
    \/ CallHelpersSanitizeRequestData
    \/ CallSanitizeSanitizeRequestData

SpecObj == InitObj /\ [][NextObj]_vars

-----------------------------------------------------------------------------
(* Claims about the structural sanitizers and the pipelines                *)

\* The pipelines and the sensitive keys each one works with.
RequestOps ==
    {"sanitizeRequestData", "helpers_sanitizeRequestData", "sanitize_sanitizeRequestData"}

SensitiveKeysOf(o) ==
    IF o = "helpers_sanitizeRequestData" THEN helpers_SENSITIVE_FIELDS
    ELSE IF o = "sanitize_sanitizeRequestData" THEN arg.options.sensitiveKeys
    ELSE SENSITIVE_FIELDS

\* The structural sanitizers, and the value a call gave back.
StructOps == {"sanitizeObject", "xssGuard_sanitizeObject"}

ResultData ==
    IF op \in {"sanitizeObject", "sanitizeRequestData"} THEN ret.value.data ELSE ret.value

\* C1: for every mapping m and every sensitive key k present in m (m[k]
\* undefined, empty, markup or a nested composite included), the mapping
\* that sanitizeRequestData returns has exactly m[k] at k.
C1_SensitiveExemption ==
    (op \in RequestOps /\ ret.status = "returned") =>
        \A n \in 1..Len(arg.value.ents) :
            LET k == arg.value.ents[n].k IN
            includes(SensitiveKeysOf(op), k) =>
                /\ ResultData.t = "map"
                /\ HasKey(ResultData.ents, k)
                /\ ValueOf(ResultData.ents, k) = arg.value.ents[n].v

\* The paths of the string leaves that no sensitive key covers, as
\* sanitizeValue names them.
RECURSIVE SanitizablePaths(_, _)
SanitizablePaths(v, path) ==
    IF v.t = "str" THEN {path}
    ELSE IF v.t = "seq"
    THEN UNION {SanitizablePaths(v.elems[n], path \o "[" \o ToString(n - 1) \o "]") :
                    n \in 1..Len(v.elems)}
    ELSE IF v.t = "map"
    THEN UNION {IF includes(SENSITIVE_FIELDS, v.ents[n].k) THEN {}
                ELSE SanitizablePaths(v.ents[n].v,
                        IF path # "" THEN path \o "." \o v.ents[n].k ELSE v.ents[n].k) :
                    n \in 1..Len(v.ents)}
    ELSE {}

\* Every value under a sensitive key, at any depth, is the same in out.
RECURSIVE SensitiveKept(_, _)
SensitiveKept(in, out) ==
    IF in.t = "seq"
    THEN /\ out.t = "seq" /\ Len(out.elems) = Len(in.elems)
         /\ \A n \in 1..Len(in.elems) : SensitiveKept(in.elems[n], out.elems[n])
    ELSE IF in.t = "map"
    THEN /\ out.t = "map" /\ Len(out.ents) = Len(in.ents)
         /\ \A n \in 1..Len(in.ents) :
               /\ out.ents[n].k = in.ents[n].k
               /\ IF includes(SENSITIVE_FIELDS, in.ents[n].k)
                  THEN out.ents[n].v = in.ents[n].v
                  ELSE SensitiveKept(in.ents[n].v, out.ents[n].v)
    ELSE TRUE

\* Some string leaf outside the sensitive keys came back changed.
RECURSIVE OtherLeafChanged(_, _)
OtherLeafChanged(in, out) ==
    IF in.t = "str" THEN out # in
    ELSE IF in.t = "seq"
    THEN \E n \in 1..Len(in.elems) : OtherLeafChanged(in.elems[n], out.elems[n])
    ELSE IF in.t = "map"
    THEN \E n \in 1..Len(in.ents) :
            /\ ~includes(SENSITIVE_FIELDS, in.ents[n].k)
            /\ OtherLeafChanged(in.ents[n].v, out.ents[n].v)
    ELSE FALSE

\* C2: in sanitizeObject, at every nesting depth, the value under a key of
\* SENSITIVE_FIELDS is returned unchanged, is never passed to sanitizeString
\* or isDangerous, never sets the modified flag and never produces a warning.
C2_SensitiveKeysPassThrough ==
    op = "sanitizeObject" =>
        LET paths == SanitizablePaths(arg.value, "") IN
        /\ \A n \in 1..Len(ret.walk.cleanedAt) : ret.walk.cleanedAt[n].path \in paths
        /\ \A n \in 1..Len(ret.walk.checkedAt) : ret.walk.checkedAt[n].path \in paths
        /\ \A n \in 1..Len(ret.walk.warnings) :
              \E q \in paths : ret.walk.warnings[n] = Warning(q)
        /\ ret.status = "returned" =>
              /\ SensitiveKept(arg.value, ret.value.data)
              /\ ret.value.sanitized => OtherLeafChanged(arg.value, ret.value.data)

\* A sensitive key two levels down holds a script element, next to a
\* property that the walk does clean.
C2_Witness ==
    /\ op = "sanitizeObject" /\ ret.status = "returned"
    /\ arg.value = MapV(<<Entry("name", SeqV(<<MapV(<<Entry("password", StrV(ScriptMarkup))>>)>>)),
                          Entry("bio", StrV(ScriptMarkup))>>)
    /\ ret.value.sanitized
    /\ ret.value.data.ents[1] = arg.value.ents[1]
    /\ ret.value.data.ents[2] # arg.value.ents[2]

\* out has the shape of in: the same keys in the same order, the same
\* lengths, a string where in has a string, and every other leaf as it was.
RECURSIVE SameShape(_, _)
SameShape(in, out) ==
    IF in.t = "seq"
    THEN /\ out.t = "seq" /\ Len(out.elems) = Len(in.elems)
         /\ \A n \in 1..Len(in.elems) : SameShape(in.elems[n], out.elems[n])
    ELSE IF in.t = "map"
    THEN /\ out.t = "map" /\ Len(out.ents) = Len(in.ents)
         /\ \A n \in 1..Len(in.ents) :
               /\ out.ents[n].k = in.ents[n].k
               /\ SameShape(in.ents[n].v, out.ents[n].v)
    ELSE IF in.t = "str" THEN out.t = "str"
    ELSE out = in

\* C3: for every acyclic composite value, the structural sanitizer returns
\* a value of the same shape: identical key sets, identical lengths and
\* order, and only string leaves may differ.
C3_ShapePreserved ==
    (op \in StructOps /\ ret.status = "returned" /\ arg.value.t \in {"seq", "map"}) =>
        SameShape(arg.value, ResultData)

\* Wherever in has a non-string scalar, out has the same scalar at the
\* same place.
RECURSIVE ScalarsKept(_, _)
ScalarsKept(in, out) ==
    IF in.t = "str" THEN TRUE
    ELSE IF in.t = "seq"
    THEN out.t = "seq" =>
            \A n \in 1..Len(in.elems) :
                n <= Len(out.elems) => ScalarsKept(in.elems[n], out.elems[n])
    ELSE IF in.t = "map"
    THEN out.t = "map" =>
            \A n \in 1..Len(in.ents) :
                HasKey(out.ents, in.ents[n].k) =>
                    ScalarsKept(in.ents[n].v, ValueOf(out.ents, in.ents[n].k))
    ELSE out = in

\* C4: every non-string scalar (number, boolean, null, undefined, Date,
\* RegExp), at the top level or as a leaf of a mapping or sequence, is
\* returned by the structural sanitizer unchanged.
C4_NonStringScalarsUnchanged ==
    (op \in StructOps /\ ret.status = "returned") => ScalarsKept(arg.value, ResultData)

-----------------------------------------------------------------------------
(* escapeHTML of the xssGuard module                                       *)

\* text.replace(/c/g, rep) for a pattern of one character.
RECURSIVE ReplaceAll(_, _, _)
ReplaceAll(text, c, rep) ==
    IF text = <<>> THEN <<>>
    ELSE (IF Head(text) = c THEN rep ELSE <<Head(text)>>) \o ReplaceAll(Tail(text), c, rep)

EntAmp == <<"&","a","m","p",";">>
EntQuot == <<"&","q","u","o","t",";">>
EntApos == <<"&","#","0","3","9",";">>

\* The replacements with the ampersand escaped last.
escapeHTML_AmpLast(text) ==
    ReplaceAll(ReplaceAll(ReplaceAll(ReplaceAll(ReplaceAll(text,
        "<", EntLt), ">", EntGt), "\"", EntQuot), "'", EntApos), "&", EntAmp)

\* The replacements without the one of the ampersand.
escapeHTML_NoAmp(text) ==
    ReplaceAll(ReplaceAll(ReplaceAll(ReplaceAll(text,
        "<", EntLt), ">", EntGt), "\"", EntQuot), "'", EntApos)

\* escapeHTML (lines 172-180): '' for a falsy text, else the five
\* replacements, one after another.
escapeHTML(text) ==
    IF text = <<>> THEN <<>>
    ELSE ReplaceAll(ReplaceAll(ReplaceAll(ReplaceAll(ReplaceAll(text,
            "&", EntAmp), "<", EntLt), ">", EntGt), "\"", EntQuot), "'", EntApos)

\* The first variant (lines 59-68) returns a falsy text as it is.
escapeHTML_v1(text) ==
    IF text = <<>> THEN text
    ELSE ReplaceAll(ReplaceAll(ReplaceAll(ReplaceAll(ReplaceAll(text,
            "&", EntAmp), "<", EntLt), ">", EntGt), "\"", EntQuot), "'", EntApos)

\* The texts: the five special characters, and the letters and the ";"
\* that make an input look like an entity.
EscChars == {"&", "<", ">", "\"", "'", "l", "t", ";"}
EscInputs == SeqsUpTo(EscChars, MaxEscLen)

InitEsc ==
    /\ op = "none"
    /\ arg \in [value : EscInputs, options : {[kind |-> "none"]}]
    /\ domMode = "ok"
    /\ ret = NoResult
    /\ registry = SANITIZATION_CONFIGS

CallEscapeHTML ==
    /\ op = "none"
    /\ op' = "escapeHTML"
    /\ ret' = Returned(escapeHTML(arg.value))
    /\ UNCHANGED <<arg, domMode, registry>>

CallEscapeHTMLV1 ==
    /\ op = "none"
    /\ op' = "escapeHTML_v1"
    /\ ret' = Returned(escapeHTML_v1(arg.value))
    /\ UNCHANGED <<arg, domMode, registry>>

NextEsc ==
    \/ CallEscapeHTML
    \/ CallEscapeHTMLV1

SpecEsc == InitEsc /\ [][NextEsc]_vars

\* The entity that stands for a character, or the character itself.
EscapeChar(c) ==
    IF c = "&" THEN EntAmp
    ELSE IF c = "<" THEN EntLt
    ELSE IF c = ">" THEN EntGt
    ELSE IF c = "\"" THEN EntQuot
    ELSE IF c = "'" THEN EntApos
    ELSE <<c>>

\* The substitution of a text, character by character.
Substituted(t) == Concat([n \in 1..Len(t) |-> EscapeChar(t[n])])

\* C12: escapeHTML(t) is the character-by-character substitution of t by
\* the five entities, no "&" of a replacement is escaped again, and the
\* output holds no raw < > " or '.
C12_EscapeIsSubstitution ==
    op = "escapeHTML" =>
        /\ ret = Returned(Substituted(arg.value))
        /\ \A n \in 1..Len(ret.value) : ret.value[n] \notin {"<", ">", "\"", "'"}

\* A text with an ampersand and the other special characters.
C12_Witness ==
    /\ op = "escapeHTML"
    /\ arg.value = <<"<", "\"", "'", "&">>
    /\ ret = Returned(EntLt \o EntQuot \o EntApos \o EntAmp)

\* Decoding of the five entities, from left to right.
RECURSIVE DecodeEntities(_)
DecodeEntities(s) ==
    IF s = <<>> THEN <<>>
    ELSE IF OccursAt(s, EntAmp, 1) THEN <<"&">> \o DecodeEntities(SubSeq(s, 6, Len(s)))
    ELSE IF OccursAt(s, EntLt, 1) THEN <<"<">> \o DecodeEntities(SubSeq(s, 5, Len(s)))
    ELSE IF OccursAt(s, EntGt, 1) THEN <<">">> \o DecodeEntities(SubSeq(s, 5, Len(s)))
    ELSE IF OccursAt(s, EntQuot, 1) THEN <<"\"">> \o DecodeEntities(SubSeq(s, 7, Len(s)))
    ELSE IF OccursAt(s, EntApos, 1) THEN <<"'">> \o DecodeEntities(SubSeq(s, 7, Len(s)))
    ELSE <<Head(s)>> \o DecodeEntities(Tail(s))

\* C13: escapeHTML is lossless: decoding the five entities in escapeHTML(t)
\* yields t again, in both variants.
C13_EscapeIsLossless ==
    op \in {"escapeHTML", "escapeHTML_v1"} =>
        (ret.status = "returned" /\ DecodeEntities(ret.value) = arg.value)

\* A text that already reads as an entity: it is escaped, not kept.
C13_Witness ==
    /\ op \in {"escapeHTML", "escapeHTML_v1"}
    /\ arg.value = EntLt
    /\ ret = Returned(EntAmp \o <<"l","t",";">>)

-----------------------------------------------------------------------------
(* The string sanitizers called with any value                             *)
(*                                                                         *)
(* The parameters are declared string, and the guards at the top of the    *)
(* functions are written for callers that pass null or undefined all the   *)
(* same.  Here the argument and the result are values as in the            *)
(* structural sanitizers.                                                  *)

\* sanitizeString of the xssGuard module: if (!value) return ''
js_xssGuard_sanitizeString(value, mode) ==
    IF Falsy(value) THEN StrV(<<>>) ELSE StrV(xssGuard_sanitizeString(value.s, mode))

\* The first variant: if (!value) return value
js_xssGuard_sanitizeString_v1(value, mode) ==
    IF Falsy(value) THEN value ELSE StrV(xssGuard_sanitizeString_v1(value.s, mode))

\* sanitizeHTML, both variants: if (!html) return ''
js_xssGuard_sanitizeHTML(html, allowedTags, mode) ==
    IF Falsy(html) THEN StrV(<<>>) ELSE StrV(xssGuard_sanitizeHTML(html.s, allowedTags, mode))

\* sanitizeString of utils/sanitizer.ts:
\* if (typeof value !== 'string') return value
js_sanitizeString(value, config, mode) ==
    IF value.t # "str" THEN Returned(value)
    ELSE LET r == sanitizeString(value.s, config, mode) IN
         IF r.status = "threw" THEN r ELSE Returned(StrV(r.value))

\* The values passed: null, undefined, and the strings of the string calls
\* (the empty string is one of them).
AnyInputs == {NullV, UndefV} \cup {StrV(x) : x \in StrInputs}

InitAny ==
    /\ op = "none"
    /\ arg \in [value : AnyInputs, options : {[kind |-> "none"]}]
    /\ domMode \in DomModes
    /\ ret = NoResult
    /\ registry = SANITIZATION_CONFIGS

CallAnyXssGuardSanitizeString ==
    /\ op = "none"
    /\ op' = "xssGuard_sanitizeString"
    /\ ret' = Returned(js_xssGuard_sanitizeString(arg.value, domMode))
    /\ UNCHANGED <<arg, domMode, registry>>

CallAnyXssGuardSanitizeStringV1 ==
    /\ op = "none"
    /\ op' = "xssGuard_sanitizeString_v1"
    /\ ret' = Returned(js_xssGuard_sanitizeString_v1(arg.value, domMode))
    /\ UNCHANGED <<arg, domMode, registry>>

CallAnyXssGuardSanitizeHTML ==
    /\ op = "none"
    /\ op' = "xssGuard_sanitizeHTML"
    /\ ret' = Returned(js_xssGuard_sanitizeHTML(arg.value, AllowedTagsOf(arg.options), domMode))
    /\ UNCHANGED <<arg, domMode, registry>>

CallAnySanitizeString ==
    /\ op = "none"
    /\ op' = "sanitizeString"
    /\ ret' = js_sanitizeString(arg.value, ConfigOf(arg.options), domMode)
    /\ UNCHANGED <<arg, domMode, registry>>

NextAny ==
    \/ CallAnyXssGuardSanitizeString
    \/ CallAnyXssGuardSanitizeStringV1
    \/ CallAnyXssGuardSanitizeHTML
    \/ CallAnySanitizeString

SpecAny == InitAny /\ [][NextAny]_vars

\* C14: for an empty, null or undefined input, sanitizeString and
\* sanitizeHTML both return the empty string.
C14_EmptyInputYieldsEmptyString ==
    (op # "none" /\ arg.value \in {NullV, UndefV, StrV(<<>>)})
        => ret = Returned(StrV(<<>>))

-----------------------------------------------------------------------------
(* Claims about the outcome of sanitizeObject and sanitizeRequestData      *)

OutcomeOps == {"sanitizeObject", "sanitizeRequestData"}

\* C15: the sanitized flag of the outcome of sanitizeObject and of
\* sanitizeRequestData is true if and only if the data returned differs
\* from the input at some leaf.
C15_FlagIffDataDiffers ==
    (op \in OutcomeOps /\ ret.status = "returned")
        => (ret.value.sanitized <=> ret.value.data # arg.value)

\* A string that is only trimmed sets the flag, with no warning.
C15_Witness ==
    /\ op \in OutcomeOps /\ ret.status = "returned"
    /\ arg.value.t = "map"
    /\ HasKey(arg.value.ents, "name") /\ ValueOf(arg.value.ents, "name") = StrV(PaddedText)
    /\ ValueOf(ret.value.data.ents, "name") = StrV(PlainText)
    /\ ret.value.sanitized /\ ret.value.warnings = <<>>

\* The warnings that the leaves of in call for, in the order of the walk:
\* one for each string that came back changed (out) and that isDangerous
\* flags, with the path of the leaf.
RECURSIVE ExpectedWarnings(_, _, _)
ExpectedWarnings(in, out, path) ==
    IF in.t = "str"
    THEN (IF out # in /\ isDangerous(in.s)
          THEN <<"Dangerous content removed from: " \o path>> ELSE <<>>)
    ELSE IF in.t = "seq"
    THEN Concat([n \in 1..Len(in.elems) |->
            ExpectedWarnings(in.elems[n], out.elems[n],
                             path \o "[" \o ToString(n - 1) \o "]")])
    ELSE IF in.t = "map"
    THEN Concat([n \in 1..Len(in.ents) |->
            ExpectedWarnings(in.ents[n].v, out.ents[n].v,
                             IF path = "" THEN in.ents[n].k
                             ELSE path \o "." \o in.ents[n].k)])
    ELSE <<>>

\* C16: the warnings of sanitizeObject hold exactly one entry for each
\* string leaf whose cleaned value differs from the original and whose
\* original isDangerous flags, in traversal order, each naming the path of
\* the leaf (parent.key, parent[index]); an unchanged leaf gives none.
C16_WarningsExact ==
    (op = "sanitizeObject" /\ ret.status = "returned")
        => ret.value.warnings = ExpectedWarnings(arg.value, ret.value.data, "")

\* Two dangerous leaves, one three levels down, warned of in the order of
\* the entries.
C16_Witness ==
    /\ op = "sanitizeObject" /\ ret.status = "returned"
    /\ arg.value = MapV(<<Entry("name", MapV(<<Entry("name", SeqV(<<StrV(ScriptMarkup)>>))>>)),
                          Entry("bio", StrV(ScriptMarkup))>>)
    /\ ret.value.warnings = <<"Dangerous content removed from: name.name[0]",
                               "Dangerous content removed from: bio">>

-----------------------------------------------------------------------------
(* Two runs that differ in the verdicts of the dangerous-content check     *)

\* The inputs: the values of the structural calls and the strings of the
\* string calls.
AdvInputs == ObjInputs \cup {StrV(x) : x \in StrInputs}

\* The second run has the verdicts of arg.options; the first one asks
\* isDangerous.
InitAdv ==
    /\ op = "none"
    /\ arg \in [value : AdvInputs,
                 options : {[kind |-> "verdicts", verdicts |-> v] :
                                v \in Verdicts \ {"isDangerous"}}]
    /\ domMode \in {"ok", "throws"}
    /\ ret = NoResult
    /\ registry = SANITIZATION_CONFIGS

RunSanitizeStringTwice ==
    /\ op = "none" /\ arg.value.t = "str"
    /\ op' = "sanitizeString"
    /\ ret' = [status |-> "ran",
               first |-> sanitizeStringLogged(arg.value.s, DEFAULT_CONFIG, domMode,
                                              "isDangerous"),
               second |-> sanitizeStringLogged(arg.value.s, DEFAULT_CONFIG, domMode,
                                               arg.options.verdicts)]
    /\ UNCHANGED <<arg, domMode, registry>>

RunSanitizeObjectTwice ==
    /\ op = "none"
    /\ op' = "sanitizeObject"
    /\ ret' = [status |-> "ran",
               first |-> sanitizeObjectUnder(arg.value, DEFAULT_CONFIG, domMode,
                                             "isDangerous"),
               second |-> sanitizeObjectUnder(arg.value, DEFAULT_CONFIG, domMode,
                                              arg.options.verdicts)]
    /\ UNCHANGED <<arg, domMode, registry>>

NextAdv ==
    \/ RunSanitizeStringTwice
    \/ RunSanitizeObjectTwice

SpecAdv == InitAdv /\ [][NextAdv]_vars

\* C17: the dangerous-content check is advisory only: two runs of
\* sanitizeString or sanitizeObject on the same input and policy that
\* differ only in the verdicts of the check return the same data and the
\* same modified flag (or fail alike); warnings and log output may differ.
C17_CheckIsAdvisory ==
    /\ op = "sanitizeString" => ret.first.outcome = ret.second.outcome
    /\ op = "sanitizeObject" =>
          /\ ret.first.status = ret.second.status
          /\ ret.first.status = "returned" =>
                /\ ret.first.value.data = ret.second.value.data
                /\ ret.first.value.sanitized = ret.second.value.sanitized

\* The verdicts do differ: the first run warns of a script element and the
\* second one does not.
C17_Witness ==
    /\ op = "sanitizeObject"
    /\ arg.value = MapV(<<Entry("bio", StrV(ScriptMarkup))>>)
    /\ ret.first.status = "returned" /\ ret.second.status = "returned"
    /\ ret.first.value.warnings # <<>>
    /\ ret.second.value.warnings = <<>>
    /\ ret.first.value.sanitized

-----------------------------------------------------------------------------
(* The configuration registry: getConfig and createCustomConfig            *)

\* A function object, such as the ones every object literal inherits.
FunctionV == [t |-> "function"]

\* Properties that SANITIZATION_CONFIGS inherits from Object.prototype.
ObjectPrototypeNames == {"constructor", "toString", "valueOf", "hasOwnProperty"}

\* getConfig(name): SANITIZATION_CONFIGS[name], a property lookup: the
\* configuration of a registered name, an inherited property, or undefined.
getConfig(name) ==
    IF name \in DOMAIN registry THEN registry[name]
    ELSE IF name \in ObjectPrototypeNames THEN FunctionV
    ELSE UndefV

\* { ...a, ...b } for two objects given as records: the properties of a,
\* those that b has too with the value of b, and the other ones of b.
SpreadProps(a, b) ==
    [f \in (DOMAIN a) \cup (DOMAIN b) |-> IF f \in DOMAIN b THEN b[f] ELSE a[f]]

\* The own enumerable properties that a spread copies.
OwnProps(v) == IF v \in {FunctionV, UndefV} THEN <<>> ELSE v

\* c.allowedAttributes as the spread sees it: nothing when it is undefined.
AttributesOf(c) ==
    IF "allowedAttributes" \in DOMAIN c THEN c.allowedAttributes ELSE <<>>

HasTag(attrs, tag) == \E n \in 1..Len(attrs) : attrs[n].tag = tag
AttrsOfTag(attrs, tag) == attrs[CHOOSE n \in 1..Len(attrs) : attrs[n].tag = tag].attrs

\* { ...a, ...b } for two attribute maps.
SpreadAttributes(a, b) ==
    [n \in 1..Len(a) |->
        IF HasTag(b, a[n].tag) THEN [tag |-> a[n].tag, attrs |-> AttrsOfTag(b, a[n].tag)]
        ELSE a[n]]
    \o SelectSeq(b, LAMBDA e : ~HasTag(a, e.tag))

\* The first argument of createCustomConfig: a name or a configuration.
BaseName(n) == [kind |-> "name", name |-> n]
BaseObject(c) == [kind |-> "config", config |-> c]

\* A createCustomConfig that would spread the two objects and no more.
createCustomConfig_ShallowSpread(base, overrides) ==
    LET baseConfig == IF base.kind = "name" THEN getConfig(base.name) ELSE base.config
    IN  [status |-> "returned",
         value |-> SpreadProps(OwnProps(baseConfig), overrides),
         base |-> base, registry |-> registry]

\* A createCustomConfig that would assign the overrides into the base.
createCustomConfig_AssignsIntoBase(base, overrides) ==
    LET baseConfig == IF base.kind = "name" THEN getConfig(base.name) ELSE base.config
    IN  IF baseConfig = UndefV
        THEN [status |-> "threw", error |-> "TypeError", base |-> base, registry |-> registry]
        ELSE LET b == OwnProps(baseConfig)
                 merged == SpreadProps(SpreadProps(b, overrides),
                               [allowedAttributes |->
                                    SpreadAttributes(AttributesOf(b), AttributesOf(overrides))])
             IN  [status |-> "returned", value |-> merged,
                  base |-> IF base.kind = "config" THEN BaseObject(merged) ELSE base,
                  registry |-> IF base.kind = "name" /\ base.name \in DOMAIN registry
                               THEN [registry EXCEPT ![base.name] = merged]
                               ELSE registry]

\* createCustomConfig(base, overrides): the configuration it returns, or
\* the TypeError of reading allowedAttributes of undefined; with it, the
\* base object and the registry as the call leaves them.
createCustomConfig(base, overrides) ==
    LET baseConfig == IF base.kind = "name" THEN getConfig(base.name) ELSE base.config
    IN  IF baseConfig = UndefV
        THEN [status |-> "threw", error |-> "TypeError", base |-> base, registry |-> registry]
        ELSE LET b == OwnProps(baseConfig) IN
             [status |-> "returned",
              value |-> SpreadProps(SpreadProps(b, overrides),
                            [allowedAttributes |->
                                SpreadAttributes(AttributesOf(b), AttributesOf(overrides))]),
              base |-> base, registry |-> registry]

\* The names asked for: the registered ones, one that no object has and
\* one that Object.prototype has.
CfgNames == (DOMAIN SANITIZATION_CONFIGS) \cup {"unknown", "toString"}

Href == <<"h","r","e","f">>
Target == <<"t","a","r","g","e","t">>
Src == <<"s","r","c">>

\* The attribute maps of the overrides: a tag that the bases have, a tag
\* that some lack, both, and the empty map.
OverrideAttributes ==
    { << >>,
      << [tag |-> <<"a">>, attrs |-> <<Target>>] >>,
      << [tag |-> <<"i","m","g">>, attrs |-> <<Src>>] >>,
      << [tag |-> <<"i","m","g">>, attrs |-> <<Src>>],
         [tag |-> <<"a">>, attrs |-> <<Href, Target>>] >> }

\* The overrides (Partial<SanitizationConfig>): any of the properties.
CfgOverrides ==
    { << >>, [stripIgnoreTagBody |-> TRUE] }
        \cup {[allowedTags |-> t] : t \in {<< >>, << <<"p">>, <<"u">> >>}}
        \cup {[allowedAttributes |-> a] : a \in OverrideAttributes}
        \cup {[allowedTags |-> << <<"p">>, <<"u">> >>, allowedAttributes |-> a] :
                a \in OverrideAttributes}

\* The bases: a name, or a configuration of the caller's (the last one
\* has no allowedAttributes, which is optional).
CfgBases ==
    {BaseName(n) : n \in CfgNames}
        \cup {BaseObject(c) : c \in {BASE_CONFIG, LIBERAL_CONFIG, [allowedTags |-> << <<"b">> >>]}}

\* What the sanitizers are given in this specification.
CfgValues == {StrV(x) : x \in ObjStrings} \cup Deep1

InitCfg ==
    /\ op = "none"
    /\ arg = [kind |-> "none"]
    /\ domMode \in {"ok", "throws"}
    /\ ret = NoResult
    /\ registry = SANITIZATION_CONFIGS

CallGetConfig ==
    \E name \in CfgNames :
        /\ op' = "getConfig"
        /\ arg' = [name |-> name]
        /\ ret' = Returned(getConfig(name))
        /\ UNCHANGED <<domMode, registry>>

CallCreateCustomConfig ==
    \E base \in CfgBases, overrides \in CfgOverrides :
        LET r == createCustomConfig(base, overrides) IN
        /\ op' = "createCustomConfig"
        /\ arg' = [base |-> base, overrides |-> overrides]
        /\ ret' = r
        /\ registry' = r.registry
        /\ UNCHANGED domMode

\* sanitizeString(value, getConfig(name)) with a registered name.
CallSanitizeStringWithConfig ==
    \E name \in DOMAIN registry, value \in ObjStrings :
        /\ op' = "sanitizeString"
        /\ arg' = [name |-> name, value |-> value]
        /\ ret' = sanitizeString(value, getConfig(name), domMode)
        /\ UNCHANGED <<domMode, registry>>

CallSanitizeObjectWithConfig ==
    \E name \in DOMAIN registry, value \in CfgValues :
        /\ op' = "sanitizeObject"
        /\ arg' = [name |-> name, value |-> value]
        /\ ret' = sanitizeObject(value, getConfig(name), domMode)
        /\ UNCHANGED <<domMode, registry>>

CallSanitizeRequestDataWithConfig ==
    \E name \in DOMAIN registry, value \in {v \in CfgValues : v.t = "map"} :
        /\ op' = "sanitizeRequestData"
        /\ arg' = [name |-> name, value |-> value]
        /\ ret' = sanitizeRequestData(value, getConfig(name), domMode)
        /\ UNCHANGED <<domMode, registry>>

NextCfg ==
    \/ CallGetConfig
    \/ CallCreateCustomConfig
    \/ CallSanitizeStringWithConfig
    \/ CallSanitizeObjectWithConfig
    \/ CallSanitizeRequestDataWithConfig

SpecCfg == InitCfg /\ [][NextCfg]_vars

\* C18: getConfig returns the registered preset for each registered name
\* and fails for every name that is not registered; it never returns an
\* absent policy.
C18_GetConfigKnownOrFails ==
    op = "getConfig" =>
        IF arg.name \in DOMAIN SANITIZATION_CONFIGS
        THEN ret = Returned(SANITIZATION_CONFIGS[arg.name])
        ELSE ret.status = "threw"

\* The properties of the base that a call was given, as they were before
\* the call (none for a name that holds no configuration).
GivenBase ==
    IF arg.base.kind = "config" THEN arg.base.config
    ELSE IF arg.base.name \in DOMAIN SANITIZATION_CONFIGS
         THEN SANITIZATION_CONFIGS[arg.base.name]
    ELSE << >>

TagKeys(attrs) == {attrs[n].tag : n \in 1..Len(attrs)}

\* C19: createCustomConfig(base, overrides) returns a policy whose
\* attribute map holds, for every tag key of base or overrides, the entry
\* of overrides when it has the key and the one of base otherwise, and
\* whose tag list is the one of overrides when it gives one and the one of
\* base when it gives none.
C19_CustomConfigMerges ==
    (op = "createCustomConfig" /\ ret.status = "returned") =>
        LET b == AttributesOf(GivenBase)
            o == AttributesOf(arg.overrides)
            v == ret.value
        IN  /\ "allowedAttributes" \in DOMAIN v
            /\ TagKeys(v.allowedAttributes) = TagKeys(b) \cup TagKeys(o)
            /\ Len(v.allowedAttributes) = Cardinality(TagKeys(b) \cup TagKeys(o))
            /\ \A tag \in TagKeys(b) \cup TagKeys(o) :
                  AttrsOfTag(v.allowedAttributes, tag) =
                      IF tag \in TagKeys(o) THEN AttrsOfTag(o, tag) ELSE AttrsOfTag(b, tag)
            /\ IF "allowedTags" \in DOMAIN arg.overrides
               THEN v.allowedTags = arg.overrides.allowedTags
               ELSE IF "allowedTags" \in DOMAIN GivenBase
                    THEN v.allowedTags = GivenBase.allowedTags
               ELSE "allowedTags" \notin DOMAIN v

\* The base preset with overrides that replace the attributes of "a", add
\* those of "img" and give a tag list.
C19_Witness ==
    /\ op = "createCustomConfig" /\ ret.status = "returned"
    /\ arg.base = BaseName("base")
    /\ "allowedTags" \in DOMAIN arg.overrides
    /\ ret.value.allowedTags = << <<"p">>, <<"u">> >>
    /\ ret.value.allowedAttributes =
          << [tag |-> <<"a">>, attrs |-> <<Href, Target>>],
             [tag |-> <<"i","m","g">>, attrs |-> <<Src>>] >>
    /\ ret.value.stripIgnoreTag = BASE_CONFIG.stripIgnoreTag

\* C20: after any sequence of getConfig, createCustomConfig,
\* sanitizeString, sanitizeObject and sanitizeRequestData calls, every
\* preset of the registry and every base passed to createCustomConfig has
\* the allowed tags, attribute map and flags it had before, and the set of
\* registered names is the same.
C20_RegistryAndBaseImmutable ==
    /\ registry = SANITIZATION_CONFIGS
    /\ op = "createCustomConfig" => ret.base = arg.base

\* A call that composed a policy other than its base, a configuration of
\* the caller's.
C20_Witness ==
    /\ op = "createCustomConfig" /\ ret.status = "returned"
    /\ arg.base = BaseObject(LIBERAL_CONFIG)
    /\ ret.value.allowedTags # LIBERAL_CONFIG.allowedTags
    /\ ret.value.allowedAttributes # LIBERAL_CONFIG.allowedAttributes
    /\ ret.base = BaseObject(LIBERAL_CONFIG)
    /\ registry.liberal = LIBERAL_CONFIG

-----------------------------------------------------------------------------
(* sanitizeFields                                                          *)

\* The optional parameter fields: omitted, or an array of keys.
NoFields == [given |-> FALSE]
Fields(keys) == [given |-> TRUE, keys |-> keys]

\* const keysToSanitize = fields || Object.keys(data)
keysToSanitize(data, fields) == IF fields.given THEN fields.keys ELSE ObjectKeys(data)

\* A sanitizeFields that would sanitize every string, whatever fields says.
sanitizeFields_EveryString(data, fields, mode) ==
    MapV([n \in 1..Len(ObjectEntries(data)) |->
            LET e == ObjectEntries(data)[n] IN
            IF e.v.t = "str" THEN Entry(e.k, StrV(xssGuard_sanitizeString(e.v.s, mode)))
            ELSE e])

\* sanitizeFields of utils/sanitize.ts, over the sanitizeString of the
\* xssGuard module: the reduce adds one property for each key of data.
sanitizeFields(data, fields, mode) ==
    MapV([n \in 1..Len(ObjectEntries(data)) |->
            LET e == ObjectEntries(data)[n] IN
            IF includes(keysToSanitize(data, fields), e.k) /\ e.v.t = "str"
            THEN Entry(e.k, StrV(xssGuard_sanitizeString(e.v.s, mode)))
            ELSE e])

\* sanitizeFields of the password-aware helpers (part_004): the same, with
\* the two tests nested.
helpers_sanitizeFields(data, fields, mode) ==
    MapV([n \in 1..Len(ObjectEntries(data)) |->
            LET e == ObjectEntries(data)[n] IN
            IF includes(keysToSanitize(data, fields), e.k)
            THEN (IF e.v.t = "str"
                  THEN Entry(e.k, StrV(xssGuard_sanitizeString(e.v.s, mode)))
                  ELSE e)
            ELSE e])

\* The fields named: none, one, two, a key that data has not, a sensitive
\* key, or no parameter at all.
FieldOptions ==
    {NoFields} \cup
    {Fields(ks) : ks \in {<< >>, <<"name">>, <<"name", "bio">>, <<"bio", "missing">>,
                           <<"password">>}}

InitFld ==
    /\ op = "none"
    /\ arg \in [value : MapInputs, options : FieldOptions]
    /\ domMode \in {"ok", "throws"}
    /\ ret = NoResult
    /\ registry = SANITIZATION_CONFIGS

CallSanitizeFields ==
    /\ op = "none"
    /\ op' = "sanitizeFields"
    /\ ret' = Returned(sanitizeFields(arg.value, arg.options, domMode))
    /\ UNCHANGED <<arg, domMode, registry>>

CallHelpersSanitizeFields ==
    /\ op = "none"
    /\ op' = "helpers_sanitizeFields"
    /\ ret' = Returned(helpers_sanitizeFields(arg.value, arg.options, domMode))
    /\ UNCHANGED <<arg, domMode, registry>>

NextFld ==
    \/ CallSanitizeFields
    \/ CallHelpersSanitizeFields

SpecFld == InitFld /\ [][NextFld]_vars

\* C21: sanitizeFields(data, fields) returns a mapping with the keys of
\* data, in which a value is replaced by sanitizeString(value) exactly when
\* it is a string and its key is in fields (or fields is omitted); every
\* other value is unchanged, and a name in fields that data has not adds
\* no key.
C21_SanitizeFieldsSelective ==
    op \in {"sanitizeFields", "helpers_sanitizeFields"} =>
        /\ ret.status = "returned" /\ ret.value.t = "map"
        /\ ObjectKeys(ret.value) = ObjectKeys(arg.value)
        /\ \A n \in 1..Len(arg.value.ents) :
              LET e == arg.value.ents[n]
                  named == ~arg.options.given
                           \/ \E i \in 1..Len(arg.options.keys) : arg.options.keys[i] = e.k
              IN  ret.value.ents[n].v =
                      IF e.v.t = "str" /\ named
                      THEN StrV(xssGuard_sanitizeString(e.v.s, domMode))
                      ELSE e.v

\* Two properties hold the same script element; only the one named is
\* sanitized, and the name that data has not adds nothing.
C21_Witness ==
    /\ op = "sanitizeFields"
    /\ arg.options = Fields(<<"bio", "missing">>)
    /\ arg.value = MapV(<<Entry("name", StrV(ScriptMarkup)), Entry("bio", StrV(ScriptMarkup))>>)
    /\ ret.value.ents[1] = Entry("name", StrV(ScriptMarkup))
    /\ ret.value.ents[2].v # StrV(ScriptMarkup)
    /\ Len(ret.value.ents) = 2

-----------------------------------------------------------------------------
(* The body-stripping flag of a configuration                              *)

\* The options object that sanitizeString builds for DOMPurify.sanitize
\* (utils/sanitizer.ts, lines 38-42).
OptionsPassed(config) ==
    DomOptions(config.allowedTags, FlatValues(config.allowedAttributes))

\* The configuration that differs from config in stripIgnoreTagBody only.
WithFlagFlipped(config) == [config EXCEPT !.stripIgnoreTagBody = ~@]

\* An element that the configuration does not allow, with text in it:
\* <u> followed by characters that are not markup.
UnknownElement == <<"<", "u", ">">>
IsUnknownElementWithText(s, config) ==
    /\ ~includes(config.allowedTags, <<"u">>)
    /\ Len(s) > Len(UnknownElement)
    /\ startsWith(s, UnknownElement)
    /\ \A n \in (Len(UnknownElement) + 1)..Len(s) : s[n] \notin {"<", ">"}
TextOfUnknownElement(s) == SubSeq(s, Len(UnknownElement) + 1, Len(s))

\* C22: sanitizeString honours stripIgnoreTagBody: the children of a tag
\* that is not allowed are kept (promoted to the parent) when the flag is
\* false and removed when it is true, and two configurations that differ
\* in the flag only are handed to the primitive differently.
C22_BodyFlagHonoured ==
    (op = "sanitizeString" /\ ret.status = "returned"
        /\ IsUnknownElementWithText(trim(arg.value), ConfigOf(arg.options))) =>
        /\ ret.value = IF ConfigOf(arg.options).stripIgnoreTagBody THEN <<>>
                       ELSE TextOfUnknownElement(trim(arg.value))
        /\ OptionsPassed(WithFlagFlipped(ConfigOf(arg.options)))
               # OptionsPassed(ConfigOf(arg.options))

-----------------------------------------------------------------------------
(* Containers with identity                                                *)

\* To tell an object that a call changed from a copy that it made, the
\* mappings and the sequences are kept in a heap: a sequence of containers,
\* the address of a container being its index.  A container holds leaves
\* and references to other containers.
RefV(a) == [t |-> "ref", a |-> a]

\* A new object or array: an object literal, Object.fromEntries, map.
Alloc(h, c) == [heap |-> Append(h, c), val |-> RefV(Len(h) + 1)]

\* The caller's value, built in the heap: the containers of a value before
\* the container itself.
RECURSIVE Store(_, _)
RECURSIVE StoreAll(_, _, _, _)
StoreAll(h, vals, n, done) ==
    IF n > Len(vals) THEN [heap |-> h, vals |-> done]
    ELSE LET r == Store(h, vals[n])
         IN  StoreAll(r.heap, vals, n + 1, Append(done, r.val))
Store(h, v) ==
    IF v.t = "seq"
    THEN LET r == StoreAll(h, v.elems, 1, <<>>) IN Alloc(r.heap, SeqV(r.vals))
    ELSE IF v.t = "map"
    THEN LET r == StoreAll(h, [n \in 1..Len(v.ents) |-> v.ents[n].v], 1, <<>>)
         IN  Alloc(r.heap, MapV([n \in 1..Len(v.ents) |-> Entry(v.ents[n].k, r.vals[n])]))
    ELSE [heap |-> h, val |-> v]

\* The value that a leaf or a reference stands for.
RECURSIVE Deref(_, _)
Deref(h, v) ==
    IF v.t # "ref" THEN v
    ELSE IF h[v.a].t = "seq"
    THEN SeqV([n \in 1..Len(h[v.a].elems) |-> Deref(h, h[v.a].elems[n])])
    ELSE MapV([n \in 1..Len(h[v.a].ents) |->
                Entry(h[v.a].ents[n].k, Deref(h, h[v.a].ents[n].v))])

\* utils/sanitizer.ts: sanitizeValue, with the arrays (val.map) and the
\* objects (Object.fromEntries) that it makes.  A property under a
\* sensitive key keeps the value, that is the reference, that it has.
RECURSIVE heap_sanitizeValue(_, _, _)
RECURSIVE heap_sanitizeElems(_, _, _, _, _)
RECURSIVE heap_sanitizeEntries(_, _, _, _, _)
heap_sanitizeElems(h, elems, n, done, env) ==
    IF n > Len(elems)
    THEN LET r == Alloc(h, SeqV(done)) IN [threw |-> FALSE, heap |-> r.heap, val |-> r.val]
    ELSE LET r == heap_sanitizeValue(h, elems[n], env)
         IN  IF r.threw THEN r
             ELSE heap_sanitizeElems(r.heap, elems, n + 1, Append(done, r.val), env)

heap_sanitizeEntries(h, ents, n, done, env) ==
    IF n > Len(ents)
    THEN LET r == Alloc(h, MapV(done)) IN [threw |-> FALSE, heap |-> r.heap, val |-> r.val]
    ELSE IF IsPassedThrough(ents[n].k, "")
         THEN heap_sanitizeEntries(h, ents, n + 1, Append(done, ents[n]), env)
    ELSE LET r == heap_sanitizeValue(h, ents[n].v, env)
         IN  IF r.threw THEN r
             ELSE heap_sanitizeEntries(r.heap, ents, n + 1,
                                       Append(done, Entry(ents[n].k, r.val)), env)

heap_sanitizeValue(h, val, env) ==
    IF val.t \in {"null", "undef"} THEN [threw |-> FALSE, heap |-> h, val |-> val]
    ELSE IF val.t = "str"
    THEN LET r == sanitizeString(val.s, env.config, env.mode)
         IN  IF r.status = "threw" THEN [threw |-> TRUE, heap |-> h, val |-> val]
             ELSE [threw |-> FALSE, heap |-> h, val |-> StrV(r.value)]
    ELSE IF val.t = "ref" /\ h[val.a].t = "seq"
    THEN heap_sanitizeElems(h, h[val.a].elems, 1, <<>>, env)
    ELSE IF val.t = "ref"
    THEN heap_sanitizeEntries(h, h[val.a].ents, 1, <<>>, env)
    ELSE [threw |-> FALSE, heap |-> h, val |-> val]

\* The outcome of a call in the heap: the value returned and the heap
\* after the call.
ReturnedIn(h, v) == [status |-> "returned", value |-> v, heap |-> h]

\* sanitizeObject(input, config): value is the data of the result.
heap_sanitizeObject(h, input, config, mode) ==
    LET r == heap_sanitizeValue(h, input, [config |-> config, mode |-> mode])
    IN  IF r.threw THEN Threw ELSE ReturnedIn(r.heap, r.val)

heap_extractSensitiveValues(h, data) ==
    Alloc(h, MapV(extractSensitiveValues(h[data.a])))

\* A removeSensitiveFields that would blank the sensitive properties of
\* data itself.
heap_removeSensitiveFields_InPlace(h, data) ==
    [heap |-> [h EXCEPT ![data.a] = removeSensitiveFields(h[data.a])], val |-> data]

heap_removeSensitiveFields(h, data) ==
    Alloc(h, removeSensitiveFields(h[data.a]))

heap_restoreSensitiveValues(h, sanitizedData, sensitiveValues) ==
    Alloc(h, restoreSensitiveValues(h[sanitizedData.a], h[sensitiveValues.a].ents))

heap_sanitizeRequestData(h, data, config, mode) ==
    LET sensitiveValues == heap_extractSensitiveValues(h, data)
        withoutSensitive == heap_removeSensitiveFields(sensitiveValues.heap, data)
        result == heap_sanitizeObject(withoutSensitive.heap, withoutSensitive.val,
                                      config, mode)
    IN  IF result.status = "threw" THEN result
        ELSE LET r == heap_restoreSensitiveValues(result.heap, result.value,
                                                  sensitiveValues.val)
             IN  ReturnedIn(r.heap, r.val)

\* sanitizeFields: the object that the reduce ends with.
heap_sanitizeFields(h, data, fields, mode) ==
    Alloc(h, sanitizeFields(h[data.a], fields, mode))

\* typeof v === 'object' for a value that is not null.
IsObject(v) == v.t \in {"ref", "date", "regexp"}

\* The documented sanitizeObject of the xssGuard module: an array for an
\* array, and Object.fromEntries for any other object (a Date has no entry).
RECURSIVE heap_xssGuard_sanitizeObject(_, _)
RECURSIVE heap_xssGuard_sanitizeAll(_, _, _, _)
heap_xssGuard_sanitizeAll(h, vals, n, done) ==
    IF n > Len(vals) THEN [heap |-> h, vals |-> done]
    ELSE IF vals[n].t = "str"
    THEN heap_xssGuard_sanitizeAll(h, vals, n + 1,
                                   Append(done, StrV(xssGuard_cleanString(vals[n].s))))
    ELSE IF IsObject(vals[n])
    THEN LET r == heap_xssGuard_sanitizeObject(h, vals[n])
         IN  heap_xssGuard_sanitizeAll(r.heap, vals, n + 1, Append(done, r.val))
    ELSE heap_xssGuard_sanitizeAll(h, vals, n + 1, Append(done, vals[n]))

heap_xssGuard_sanitizeObject(h, obj) ==
    IF ~IsObject(obj) THEN [heap |-> h, val |-> obj]
    ELSE IF obj.t = "ref" /\ h[obj.a].t = "seq"
    THEN LET r == heap_xssGuard_sanitizeAll(h, h[obj.a].elems, 1, <<>>)
         IN  Alloc(r.heap, SeqV(r.vals))
    ELSE IF obj.t = "ref"
    THEN LET ents == h[obj.a].ents
             r == heap_xssGuard_sanitizeAll(h, [n \in 1..Len(ents) |-> ents[n].v], 1, <<>>)
         IN  Alloc(r.heap, MapV([n \in 1..Len(ents) |-> Entry(ents[n].k, r.vals[n])]))
    ELSE Alloc(h, MapV(<<>>))

\* What a caller holds: no second argument, a configuration, the fields of
\* sanitizeFields, or the sensitive values of restoreSensitiveValues.
SensitiveValuesGiven == MapV(<<Entry("password", MapV(<<Entry("name", StrV(ScriptMarkup))>>))>>)
HeapOptions ==
    {[kind |-> "none"],
     [kind |-> "config", config |-> STRICT_CONFIG],
     [kind |-> "fields", fields |-> NoFields],
     [kind |-> "fields", fields |-> Fields(<<"name">>)],
     [kind |-> "restore", sensitiveValues |-> SensitiveValuesGiven]}

\* The arguments of a call, built in an empty heap.
HeapArg(v, o) ==
    LET r == Store(<<>>, v) IN
    IF o.kind = "restore"
    THEN LET q == Store(r.heap, o.sensitiveValues)
         IN  [heap |-> q.heap, value |-> r.val,
              options |-> [kind |-> "restore", sensitiveValues |-> q.val]]
    ELSE [heap |-> r.heap, value |-> r.val, options |-> o]

IsMapRef(h, v) == v.t = "ref" /\ h[v.a].t = "map"

InitHeap ==
    /\ op = "none"
    /\ arg \in {HeapArg(v, o) : v \in ObjInputs, o \in HeapOptions}
    /\ domMode \in {"ok", "throws"}
    /\ ret = NoResult
    /\ registry = SANITIZATION_CONFIGS

CallHeapSanitizeObject ==
    /\ op = "none" /\ arg.options.kind \in {"none", "config"}
    /\ op' = "heap_sanitizeObject"
    /\ ret' = heap_sanitizeObject(arg.heap, arg.value, ConfigOf(arg.options), domMode)
    /\ UNCHANGED <<arg, domMode, registry>>

CallHeapSanitizeRequestData ==
    /\ op = "none" /\ arg.options.kind \in {"none", "config"}
    /\ IsMapRef(arg.heap, arg.value)
    /\ op' = "heap_sanitizeRequestData"
    /\ ret' = heap_sanitizeRequestData(arg.heap, arg.value, ConfigOf(arg.options), domMode)
    /\ UNCHANGED <<arg, domMode, registry>>

CallHeapRemoveSensitiveFields ==
    /\ op = "none" /\ arg.options.kind = "none"
    /\ IsMapRef(arg.heap, arg.value)
    /\ op' = "heap_removeSensitiveFields"
    /\ ret' = LET r == heap_removeSensitiveFields(arg.heap, arg.value)
              IN  ReturnedIn(r.heap, r.val)
    /\ UNCHANGED <<arg, domMode, registry>>

CallHeapRestoreSensitiveValues ==
    /\ op = "none" /\ arg.options.kind = "restore"
    /\ IsMapRef(arg.heap, arg.value)
    /\ op' = "heap_restoreSensitiveValues"
    /\ ret' = LET r == heap_restoreSensitiveValues(arg.heap, arg.value,
                                                   arg.options.sensitiveValues)
              IN  ReturnedIn(r.heap, r.val)
    /\ UNCHANGED <<arg, domMode, registry>>

CallHeapSanitizeFields ==
    /\ op = "none" /\ arg.options.kind = "fields"
    /\ IsMapRef(arg.heap, arg.value)
    /\ op' = "heap_sanitizeFields"
    /\ ret' = LET r == heap_sanitizeFields(arg.heap, arg.value, arg.options.fields, domMode)
              IN  ReturnedIn(r.heap, r.val)
    /\ UNCHANGED <<arg, domMode, registry>>

CallHeapXssGuardSanitizeObject ==
    /\ op = "none" /\ arg.options.kind = "none"
    /\ op' = "heap_xssGuard_sanitizeObject"
    /\ ret' = LET r == heap_xssGuard_sanitizeObject(arg.heap, arg.value)
              IN  ReturnedIn(r.heap, r.val)
    /\ UNCHANGED <<arg, domMode, registry>>

NextHeap ==
    \/ CallHeapSanitizeObject
    \/ CallHeapSanitizeRequestData
    \/ CallHeapRemoveSensitiveFields
    \/ CallHeapRestoreSensitiveValues
    \/ CallHeapSanitizeFields
    \/ CallHeapXssGuardSanitizeObject

SpecHeap == InitHeap /\ [][NextHeap]_vars

HeapOps ==
    {"heap_sanitizeObject", "heap_sanitizeRequestData", "heap_removeSensitiveFields",
     "heap_restoreSensitiveValues", "heap_sanitizeFields", "heap_xssGuard_sanitizeObject"}

\* The containers of a result that the call sanitized: the container
\* returned and, for the structural sanitizers, every container under it
\* (for those of utils/sanitizer.ts, not what a sensitive key holds).
RECURSIVE ContainersUnder(_, _, _)
ContainersUnder(h, v, skipSensitive) ==
    IF v.t # "ref" THEN {}
    ELSE IF h[v.a].t = "seq"
    THEN {v.a} \cup UNION {ContainersUnder(h, h[v.a].elems[n], skipSensitive) :
                              n \in 1..Len(h[v.a].elems)}
    ELSE {v.a} \cup UNION {IF skipSensitive /\ includes(SENSITIVE_FIELDS, h[v.a].ents[n].k)
                           THEN {}
                           ELSE ContainersUnder(h, h[v.a].ents[n].v, skipSensitive) :
                              n \in 1..Len(h[v.a].ents)}

SanitizedContainers ==
    IF op \in {"heap_sanitizeObject", "heap_sanitizeRequestData"}
    THEN ContainersUnder(ret.heap, ret.value, TRUE)
    ELSE IF op = "heap_xssGuard_sanitizeObject"
    THEN ContainersUnder(ret.heap, ret.value, FALSE)
    ELSE {ret.value.a}

\* C23: no operation mutates what its caller gave: when sanitizeObject,
\* sanitizeRequestData, sanitizeFields, removeSensitiveFields or
\* restoreSensitiveValues has returned, every container that the caller
\* built has the keys, the elements and the values that it had, and every
\* sanitized mapping or sequence of the result is a new container.
C23_InputsNotMutated ==
    (op \in HeapOps /\ ret.status = "returned") =>
        /\ Len(ret.heap) >= Len(arg.heap)
        /\ \A a \in 1..Len(arg.heap) : ret.heap[a] = arg.heap[a]
        /\ \A a \in SanitizedContainers : a > Len(arg.heap)

\* sanitizeRequestData of a mapping that holds a mapping under name and
\* another under password: the first comes back as a new, cleaned
\* container, the second as the container that the caller gave.
C23_Witness ==
    /\ op = "heap_sanitizeRequestData" /\ ret.status = "returned"
    /\ Deref(arg.heap, arg.value) =
           MapV(<<Entry("name", MapV(<<Entry("name", StrV(ScriptMarkup))>>)),
                  Entry("password", MapV(<<Entry("name", StrV(ScriptMarkup))>>))>>)
    /\ ret.value.a > Len(arg.heap)
    /\ ret.heap[ret.value.a].ents[1].v.a > Len(arg.heap)
    /\ Deref(ret.heap, ret.heap[ret.value.a].ents[1].v) # Deref(arg.heap, arg.heap[arg.value.a].ents[1].v)
    /\ ret.heap[ret.value.a].ents[2].v = arg.heap[arg.value.a].ents[2].v

-----------------------------------------------------------------------------
(* The structural sanitizers and the scalar ones                           *)

\* What the scalar sanitizer of the module of the operation returns for
\* the string s, under the configuration and with the primitive of the call.
ScalarSanitized(s) ==
    IF op = "sanitizeObject"
    THEN sanitizeString(s, ConfigOf(arg.options), domMode).value
    ELSE xssGuard_sanitizeString(s, domMode)

\* Every string leaf of in outside the sensitive keys is, in out, what the
\* scalar sanitizer returns for it.
RECURSIVE LeavesScalarSanitized(_, _)
LeavesScalarSanitized(in, out) ==
    IF in.t = "str" THEN out = StrV(ScalarSanitized(in.s))
    ELSE IF in.t = "seq"
    THEN /\ out.t = "seq" /\ Len(out.elems) = Len(in.elems)
         /\ \A n \in 1..Len(in.elems) : LeavesScalarSanitized(in.elems[n], out.elems[n])
    ELSE IF in.t = "map"
    THEN /\ out.t = "map" /\ Len(out.ents) = Len(in.ents)
         /\ \A n \in 1..Len(in.ents) :
               includes(SENSITIVE_FIELDS, in.ents[n].k)
                   \/ LeavesScalarSanitized(in.ents[n].v, out.ents[n].v)
    ELSE TRUE

\* C24: the structural sanitizer applies the scalar sanitizer to the string
\* leaves: for every string s that is a mapping value or a sequence
\* element, at any depth and under no sensitive key, the leaf that
\* sanitizeObject returns is sanitizeString(s) under the same policy.
C24_LeavesAreScalarSanitized ==
    (op \in StructOps /\ ret.status = "returned" /\ arg.value.t \in {"seq", "map"}) =>
        LeavesScalarSanitized(arg.value, ResultData)

-----------------------------------------------------------------------------
(* The phases of sanitizeRequestData                                       *)

\* sanitizeRequestData of utils/sanitizer.ts (lines 108-116) and of
\* utils/sanitize.ts (lines 23-32), one statement at a time.  ret holds the
\* locals of the call: the phase reached, sensitiveValues, the working copy
\* (withoutSensitive / preparedData), what was handed to sanitizeObject
\* and what it gave back.
PhaseOps == {"sanitizeRequestData", "sanitize_sanitizeRequestData"}

InitReq ==
    /\ op = "none"
    /\ arg \in [value : MapInputs, options : ObjOptions]
    /\ domMode \in {"ok", "throws"}
    /\ ret = NoResult
    /\ registry = SANITIZATION_CONFIGS

\* const sensitiveValues = extractSensitiveValues(data)
StepExtract ==
    /\ op = "none"
    /\ op' = IF arg.options.kind = "keys" THEN "sanitize_sanitizeRequestData"
             ELSE "sanitizeRequestData"
    /\ ret' = [status |-> "running", phase |-> "extracted",
               sensitiveValues |->
                   IF arg.options.kind = "keys"
                   THEN sensitive_extractSensitiveValues(arg.value, arg.options.sensitiveKeys)
                   ELSE extractSensitiveValues(arg.value)]
    /\ UNCHANGED <<arg, domMode, registry>>

\* const withoutSensitive = removeSensitiveFields(data)
StepNeutralize ==
    /\ op \in PhaseOps /\ ret.status = "running" /\ ret.phase = "extracted"
    /\ ret' = [status |-> "running", phase |-> "neutralized",
               sensitiveValues |-> ret.sensitiveValues,
               withoutSensitive |->
                   IF op = "sanitize_sanitizeRequestData"
                   THEN sensitive_removeSensitiveFields(arg.value, arg.options.sensitiveKeys)
                   ELSE removeSensitiveFields(arg.value)]
    /\ UNCHANGED <<op, arg, domMode, registry>>

\* const result = sanitizeObject(withoutSensitive, config)
StepSanitize ==
    /\ op \in PhaseOps /\ ret.status = "running" /\ ret.phase = "neutralized"
    /\ LET result == IF op = "sanitize_sanitizeRequestData"
                     THEN [status |-> "returned",
                           value |-> [data |-> xssGuard_sanitizeObject(ret.withoutSensitive)],
                           walk |-> NewWalk]
                     ELSE sanitizeObject(ret.withoutSensitive, ConfigOf(arg.options), domMode)
       IN  ret' = IF result.status = "threw"
                  THEN [status |-> "threw", phase |-> "threw",
                        passed |-> ret.withoutSensitive, walk |-> result.walk]
                  ELSE [status |-> "running", phase |-> "sanitized",
                        sensitiveValues |-> ret.sensitiveValues,
                        passed |-> ret.withoutSensitive,
                        walk |-> result.walk,
                        result |-> result.value]
    /\ UNCHANGED <<op, arg, domMode, registry>>

\* return restoreSensitiveValues(result.data, sensitiveValues)
StepRestore ==
    /\ op \in PhaseOps /\ ret.status = "running" /\ ret.phase = "sanitized"
    /\ ret' = [status |-> "returned", phase |-> "restored",
               sensitiveValues |-> ret.sensitiveValues,
               passed |-> ret.passed,
               result |-> ret.result,
               value |-> [ret.result EXCEPT
                   !.data = IF op = "sanitize_sanitizeRequestData"
                            THEN sensitive_restoreSensitiveValues(ret.result.data,
                                                                  ret.sensitiveValues)
                            ELSE restoreSensitiveValues(ret.result.data, ret.sensitiveValues)]]
    /\ UNCHANGED <<op, arg, domMode, registry>>

NextReq ==
    \/ StepExtract
    \/ StepNeutralize
    \/ StepSanitize
    \/ StepRestore

SpecReq == InitReq /\ [][NextReq]_vars

\* The phase that the locals r are in.
PhaseOf(r) == IF r.status = "none" THEN "called" ELSE r.phase

PhaseOrder ==
    {<<"called", "extracted">>, <<"extracted", "neutralized">>,
     <<"neutralized", "sanitized">>, <<"neutralized", "threw">>,
     <<"sanitized", "restored">>}

\* The top-level keys of the input that the operation holds sensitive.
TopSensitiveKeys ==
    {k \in {arg.value.ents[n].k : n \in 1..Len(arg.value.ents)} :
        includes(SensitiveKeysOf(op'), k)}

\* One step of a call, as C25 wants it.
C25_Step ==
    /\ <<PhaseOf(ret), PhaseOf(ret')>> \in PhaseOrder
    /\ PhaseOf(ret') \in {"sanitized", "threw"} =>
          /\ ObjectKeys(ret'.passed) = ObjectKeys(arg.value)
          /\ \A k \in TopSensitiveKeys : ValueOf(ret'.passed.ents, k) = StrV(<<>>)
          /\ \A n \in 1..Len(ret'.walk.cleanedAt) :
                ret'.walk.cleanedAt[n].path \notin TopSensitiveKeys
    /\ PhaseOf(ret') = "restored" =>
          /\ ObjectKeys(ret'.value.data) = ObjectKeys(arg.value)
          /\ \A n \in 1..Len(arg.value.ents) :
                LET k == arg.value.ents[n].k IN
                ret'.value.data.ents[n].v =
                    IF HasKey(ret.sensitiveValues, k) THEN ValueOf(ret.sensitiveValues, k)
                    ELSE ret.result.data.ents[n].v
          /\ \A n \in 1..Len(ret.sensitiveValues) :
                ret.sensitiveValues[n].k \in TopSensitiveKeys

\* C25: sanitizeRequestData runs extract, neutralize, sanitize, restore in
\* this order: what the structural sanitizer is handed has the keys of the
\* input and '' under every sensitive top-level key, so that no sensitive
\* top-level value reaches the structural or the scalar sanitizer, and
\* restore overwrites only keys that were extracted and adds no key.
C25_PhasesInOrder == [][C25_Step]_vars

\* A call that has restored a script element under password, after the
\* structural sanitizer was handed '' in its place and cleaned name.
C25_Witness ==
    /\ op = "sanitizeRequestData" /\ ret.status = "returned" /\ ret.phase = "restored"
    /\ arg.value = MapV(<<Entry("name", StrV(ScriptMarkup)),
                          Entry("password", StrV(ScriptMarkup))>>)
    /\ ret.passed.ents[2] = Entry("password", StrV(<<>>))
    /\ ret.result.data.ents[2] = Entry("password", StrV(<<>>))
    /\ ret.value.data.ents[2] = Entry("password", StrV(ScriptMarkup))
    /\ ret.value.data.ents[1] # arg.value.ents[1]

-----------------------------------------------------------------------------
(* What sanitizeUrl can return                                             *)

\* C26: for every input string, sanitizeUrl returns the sentinel "#" or a
\* string that starts with http://, https:// or mailto: ; no input makes
\* it return a string with another scheme or with none.
C26_ResultIsSentinelOrAllowlisted ==
    op \in UrlOps =>
        /\ ret.status = "returned"
        /\ ret.value = Sentinel \/ HasAllowlistedPrefix(ret.value)

====
